---- MODULE Spec2Model ----
(***************************************************************************)
(* The transactional action/artifact graph store of skycastle               *)
(* (package graph) and the action() builtin of the schedule command that    *)
(* builds the graph from a workflow script.                                 *)
(*                                                                          *)
(* The store is an ordered key-value store with serializable transactions.  *)
(* db.Transact runs a body against a write buffer and commits the buffer    *)
(* atomically, re-running the body when the commit has to be retried;       *)
(* Transact / ReadTransact called on a transaction that is already open     *)
(* runs the body inside that transaction.                                   *)
(***************************************************************************)
EXTENDS Integers, Sequences, FiniteSets, TLC

(* ------------------------------ bounds --------------------------------- *)
MaxIds == 3
MaxInputs == 2
MaxWideIds == 4

Callers == {"main", "other"}
Writer == "main"
Ids == 1..MaxIds
Names == {"n1", "n2"}
Labels == {"l1"}
Commands == {"c1"}
ArtifactLabels == {"l2"}

(* ------------------------- program constants --------------------------- *)
ArtifactKindFile == 0
ArtifactKindDirectory == 1
ByteRange == 256
Kinds == {ArtifactKindFile, ArtifactKindDirectory}
RawKinds == {ArtifactKindFile}

VARIABLES
  db,        \* committed contents of the store: key -> value
  nextId,    \* number of identifiers uuid.NewV7 has handed out
  tx,        \* per caller: the write transaction in flight
  res,       \* the last result returned to a caller
  cursors,   \* the handles returned to callers so far; created lists the
             \* handles in the order AddAction returned them, produced those
             \* AddOutput returned, each with the action and name of the call
  outputOf,  \* history: artifact id returned by AddOutput -> the action handle
  standalone,\* history: ids of artifacts returned by Graph.AddArtifact
  wired,     \* history: <<action id, artifact id>> -> names of successful AddInput
             \* and the number (at) of the latest of these calls
  nInputs,   \* number of AddInput calls made so far
  decl       \* the action() call the script thread is evaluating

vars == <<db, nextId, tx, res, cursors, outputOf, standalone, wired, nInputs, decl>>

(* ------------------------------ codec ----------------------------------- *)
\* subspace.Pack and Unpack: the key is the prefix of the subspace followed by
\* the packed elements of the tuple.
Pack(sub, t) == <<sub>> \o t
Unpack(sub, key) == Tail(key)

\* encoding/gob: a struct is sent as its fields that are not zero, each with
\* its number; the decoder starts from the zero struct and sets the fields it
\* receives.
GobField(n, v, zero) == IF v = zero THEN <<>> ELSE <<<<n, v>>>>
GobGet(data, n, zero) ==
  IF \E i \in DOMAIN data : data[i][1] = n
  THEN data[CHOOSE i \in DOMAIN data : data[i][1] = n][2]
  ELSE zero

actionKeyEncode(ak) == Pack("action", <<ak.id>>)
actionKeyDecode(key) == LET t == Unpack("action", key) IN [id |-> t[1]]
actionValueEncode(av) == GobField(1, av.Label, "") \o GobField(2, av.Command, "")
\* Variant: the two fields are read in the other order.
actionValueDecodeSwapped(data) ==
  [Label |-> GobGet(data, 2, ""), Command |-> GobGet(data, 1, "")]
actionValueDecode(data) ==
  [Label |-> GobGet(data, 1, ""), Command |-> GobGet(data, 2, "")]

artifactKeyEncode(ak) == Pack("artifact", <<ak.id>>)
artifactKeyDecode(key) == LET t == Unpack("artifact", key) IN [id |-> t[1]]
artifactValueEncode(av) == GobField(1, av.Label, "") \o GobField(2, av.Kind, 0)
artifactValueDecode(data) ==
  [Label |-> GobGet(data, 1, ""), Kind |-> GobGet(data, 2, 0)]

actionInputKeyEncode(aik) == Pack("input", <<aik.actionID, aik.artifactID>>)
actionInputKeyDecode(key) ==
  LET t == Unpack("input", key) IN [actionID |-> t[1], artifactID |-> t[2]]
actionInputValueEncode(aiv) == GobField(1, aiv.Name, "")
actionInputValueDecode(data) == [Name |-> GobGet(data, 1, "")]

actionOutputKeyEncode(aok) == Pack("output", <<aok.actionID, aok.artifactID>>)
actionOutputKeyDecode(key) ==
  LET t == Unpack("output", key) IN [actionID |-> t[1], artifactID |-> t[2]]
actionOutputValueEncode(aov) == GobField(1, aov.Name, "")
actionOutputValueDecode(data) == [Name |-> GobGet(data, 1, "")]

artifactProducerKeyEncode(apk) == Pack("producer", <<apk.artifactID>>)
artifactProducerKeyDecode(key) ==
  LET t == Unpack("producer", key) IN [artifactID |-> t[1]]
artifactProducerValueEncode(apv) == GobField(1, apv.ActionID, 0)
artifactProducerValueDecode(data) == [ActionID |-> GobGet(data, 1, 0)]

artifactConsumerKeyEncode(ack) == Pack("consumer", <<ack.artifactID, ack.actionID>>)
artifactConsumerKeyDecode(key) ==
  LET t == Unpack("consumer", key) IN [artifactID |-> t[1], actionID |-> t[2]]
\* The value has no fields: it is stored as the empty byte string and decoding
\* reads nothing.
artifactConsumerValueEncode(acv) == <<>>
artifactConsumerValueDecode(data) == <<>>

\* Variant: the scan is made over the artifact subspace.
actionRangeArtifact == <<"artifact">>
actionRange == <<"action">>
\* Variant: the scan is made over the output subspace.
actionInputRangeOutputSubspace(actionID) == <<"output", actionID>>
actionInputRange(actionID) == <<"input", actionID>>
actionOutputRange(actionID) == <<"output", actionID>>
\* Variant: the prefix leaves out the artifact.
artifactConsumerRangeAll(artifactID) == <<"consumer">>
artifactConsumerRange(artifactID) == <<"consumer", artifactID>>

(* --------------------------- store primitives --------------------------- *)
\* tr.Set: the buffer maps the key to the value, replacing an earlier one.
Set(wr, key, value) ==
  [k \in (DOMAIN wr) \cup {key} |-> IF k = key THEN value ELSE wr[k]]

\* Variant: one of the buffered writes becomes visible without the others.
ApplyFirst(s, wr) ==
  LET key == CHOOSE k \in DOMAIN wr : TRUE
  IN  [k \in (DOMAIN s) \cup {key} |-> IF k = key THEN wr[k] ELSE s[k]]

\* Commit: every buffered write becomes visible at once.
Apply(s, wr) ==
  [k \in (DOMAIN s) \cup (DOMAIN wr) |-> IF k \in DOMAIN wr THEN wr[k] ELSE s[k]]

HasPrefix(k, prefix) ==
  /\ Len(k) >= Len(prefix)
  /\ \A i \in 1..Len(prefix) : k[i] = prefix[i]

RECURSIVE KeyLess(_, _, _)
KeyLess(k1, k2, i) ==
  IF i > Len(k1) THEN i <= Len(k2)
  ELSE IF i > Len(k2) THEN FALSE
  ELSE IF k1[i] = k2[i] THEN KeyLess(k1, k2, i + 1)
  ELSE k1[i] < k2[i]

RECURSIVE Ascending(_)
Ascending(S) ==
  IF S = {} THEN <<>>
  ELSE LET m == CHOOSE k \in S : \A j \in S \ {k} : KeyLess(k, j, 2)
       IN  <<m>> \o Ascending(S \ {m})

\* Variant: the keys under the prefix, descending.
GetRangeReverse(s, prefix) ==
  LET a == Ascending({k \in DOMAIN s : HasPrefix(k, prefix)})
  IN  [i \in 1..Len(a) |-> a[Len(a) + 1 - i]]

\* tr.GetRange(PrefixRange(prefix)): the keys under the prefix, ascending.
GetRange(s, prefix) == Ascending({k \in DOMAIN s : HasPrefix(k, prefix)})

(* ------------------------------ handles --------------------------------- *)
actionCursor(ak, av) == [key |-> ak, value |-> av]
artifactCursor(ak, av) == [key |-> ak, value |-> av]
Id(c) == c.key.id

Ok(v) == [err |-> "none", val |-> v]
Err(e) == [err |-> e, val |-> <<>>]
NotFound == "NotFound"
StoreError == "StoreError"

\* Variant: the same identifier is handed out again.
NewV7Repeated == IF nextId < 3 THEN nextId + 1 ELSE nextId

\* uuid.NewV7: time-ordered, never handed out twice.
NewV7 == nextId + 1

EmptyBuffer == <<>>

(* ------------------------- write transactions --------------------------- *)
\* Variant: the cursor is returned but the record is never written.
addActionTransactionNoWrite(wr, id, label, command) ==
  LET ak == [id |-> id]
      av == [Label |-> label, Command |-> command]
  IN  [wr |-> wr, ret |-> actionCursor(ak, av)]

\* Variant: the record is written under an id that does not change.
addActionTransactionFixedId(wr, id, label, command) ==
  LET ak == [id |-> 1]
      av == [Label |-> label, Command |-> command]
  IN  [wr  |-> Set(wr, actionKeyEncode(ak), actionValueEncode(av)),
       ret |-> actionCursor(ak, av)]

addActionTransaction(wr, id, label, command) ==
  LET ak == [id |-> id]
      av == [Label |-> label, Command |-> command]
  IN  [wr  |-> Set(wr, actionKeyEncode(ak), actionValueEncode(av)),
       ret |-> actionCursor(ak, av)]

addArtifactTransaction(wr, id, label, kind) ==
  LET ak == [id |-> id]
      av == [Label |-> label, Kind |-> kind]
  IN  [wr  |-> Set(wr, artifactKeyEncode(ak), artifactValueEncode(av)),
       ret |-> artifactCursor(ak, av)]

\* Variant: the consumer key is built with its two fields exchanged.
addActionInputTransactionSwapped(wr, action, name, artifact) ==
  LET aik == [actionID |-> Id(action), artifactID |-> artifact.key.id]
      aiv == [Name |-> name]
      ack == [artifactID |-> Id(action), actionID |-> artifact.key.id]
      w1  == Set(wr, actionInputKeyEncode(aik), actionInputValueEncode(aiv))
  IN  [wr  |-> Set(w1, artifactConsumerKeyEncode(ack), artifactConsumerValueEncode(<<>>)),
       ret |-> <<>>]

\* Variant: the edge is written with the keys of the output path.
addActionInputTransactionAsOutput(wr, action, name, artifact) ==
  LET aok == [actionID |-> Id(action), artifactID |-> artifact.key.id]
      aov == [Name |-> name]
      apk == [artifactID |-> artifact.key.id]
      apv == [ActionID |-> Id(action)]
      w1  == Set(wr, actionOutputKeyEncode(aok), actionOutputValueEncode(aov))
  IN  [wr  |-> Set(w1, artifactProducerKeyEncode(apk), artifactProducerValueEncode(apv)),
       ret |-> <<>>]

\* Variant: the second write goes to the producer index instead of the
\* consumer index.
addActionInputTransactionProducer(wr, action, name, artifact) ==
  LET aik == [actionID |-> Id(action), artifactID |-> artifact.key.id]
      aiv == [Name |-> name]
      apk == [artifactID |-> artifact.key.id]
      apv == [ActionID |-> Id(action)]
      w1  == Set(wr, actionInputKeyEncode(aik), actionInputValueEncode(aiv))
  IN  [wr  |-> Set(w1, artifactProducerKeyEncode(apk), artifactProducerValueEncode(apv)),
       ret |-> <<>>]

\* Variant: the input name is made part of the edge key.
addActionInputTransactionNameInKey(wr, action, name, artifact) ==
  LET aik == [actionID |-> Id(action), artifactID |-> artifact.key.id]
      aiv == [Name |-> name]
      ack == [artifactID |-> artifact.key.id, actionID |-> Id(action)]
      w1  == Set(wr, actionInputKeyEncode(aik) \o <<name>>, actionInputValueEncode(aiv))
  IN  [wr  |-> Set(w1, artifactConsumerKeyEncode(ack), artifactConsumerValueEncode(<<>>)),
       ret |-> <<>>]

\* Variant: the input name is made part of the consumer key.
addActionInputTransactionConsumerPerName(wr, action, name, artifact) ==
  LET aik == [actionID |-> Id(action), artifactID |-> artifact.key.id]
      aiv == [Name |-> name]
      ack == [artifactID |-> artifact.key.id, actionID |-> Id(action)]
      w1  == Set(wr, actionInputKeyEncode(aik), actionInputValueEncode(aiv))
  IN  [wr  |-> Set(w1, artifactConsumerKeyEncode(ack) \o <<name>>,
                   artifactConsumerValueEncode(<<>>)),
       ret |-> <<>>]

addActionInputTransaction(wr, action, name, artifact) ==
  LET aik == [actionID |-> Id(action), artifactID |-> artifact.key.id]
      aiv == [Name |-> name]
      ack == [artifactID |-> artifact.key.id, actionID |-> Id(action)]
      w1  == Set(wr, actionInputKeyEncode(aik), actionInputValueEncode(aiv))
  IN  [wr  |-> Set(w1, artifactConsumerKeyEncode(ack), artifactConsumerValueEncode(<<>>)),
       ret |-> <<>>]

\* Variant: the producer entry is left out.
addActionOutputTransactionNoProducer(wr, id, action, name, label, kind) ==
  LET t   == addArtifactTransaction(wr, id, label, kind)
      artifact == t.ret
      aok == [actionID |-> Id(action), artifactID |-> artifact.key.id]
      aov == [Name |-> name]
  IN  [wr  |-> Set(t.wr, actionOutputKeyEncode(aok), actionOutputValueEncode(aov)),
       ret |-> artifact]

\* Variant: the producer entry records the artifact's own id.
addActionOutputTransactionSelfProducer(wr, id, action, name, label, kind) ==
  LET t   == addArtifactTransaction(wr, id, label, kind)
      artifact == t.ret
      aok == [actionID |-> Id(action), artifactID |-> artifact.key.id]
      aov == [Name |-> name]
      apk == [artifactID |-> artifact.key.id]
      apv == [ActionID |-> artifact.key.id]
      w1  == Set(t.wr, actionOutputKeyEncode(aok), actionOutputValueEncode(aov))
  IN  [wr  |-> Set(w1, artifactProducerKeyEncode(apk), artifactProducerValueEncode(apv)),
       ret |-> artifact]

addActionOutputTransaction(wr, id, action, name, label, kind) ==
  LET t   == addArtifactTransaction(wr, id, label, kind)
      artifact == t.ret
      aok == [actionID |-> Id(action), artifactID |-> artifact.key.id]
      aov == [Name |-> name]
      apk == [artifactID |-> artifact.key.id]
      apv == [ActionID |-> Id(action)]
      w1  == Set(t.wr, actionOutputKeyEncode(aok), actionOutputValueEncode(aov))
  IN  [wr  |-> Set(w1, artifactProducerKeyEncode(apk), artifactProducerValueEncode(apv)),
       ret |-> artifact]

(* -------------------------- read transactions --------------------------- *)
actionTransaction(s, id) ==
  LET ak  == [id |-> id]
      key == actionKeyEncode(ak)
  IN  IF key \notin DOMAIN s THEN Err(NotFound)
      ELSE Ok(actionCursor(ak, actionValueDecode(s[key])))

\* Variant: a handle is returned whether or not the record exists.
artifactTransactionAlwaysFound(s, id) ==
  LET ak == [id |-> id]
  IN  Ok(artifactCursor(ak, [Label |-> "", Kind |-> ArtifactKindFile]))

artifactTransaction(s, id) ==
  LET ak  == [id |-> id]
      key == artifactKeyEncode(ak)
  IN  IF key \notin DOMAIN s THEN Err(NotFound)
      ELSE Ok(artifactCursor(ak, artifactValueDecode(s[key])))

RECURSIVE actionsLoop(_, _, _)
actionsLoop(s, it, actions) ==
  IF it = <<>> THEN Ok(actions)
  ELSE LET ak == actionKeyDecode(Head(it))
           av == actionValueDecode(s[Head(it)])
       IN  actionsLoop(s, Tail(it), Append(actions, actionCursor(ak, av)))

actionsTransaction(s) == actionsLoop(s, GetRange(s, actionRange), <<>>)

\* inputs[aiv.Name] = artifactCursor: a later entry of the scan replaces an
\* earlier one of the same name.
\* Variant: an entry that is already in the map is kept.
MapSetKeepFirst(m, name, v) ==
  [n \in (DOMAIN m) \cup {name} |-> IF n \in DOMAIN m THEN m[n] ELSE v]

MapSet(m, name, v) ==
  [n \in (DOMAIN m) \cup {name} |-> IF n = name THEN v ELSE m[n]]

\* Variant: an entry whose artifact does not resolve is left out.
RECURSIVE actionInputsLoopSkip(_, _, _)
actionInputsLoopSkip(s, it, inputs) ==
  IF it = <<>> THEN Ok(inputs)
  ELSE LET aik == actionInputKeyDecode(Head(it))
           aiv == actionInputValueDecode(s[Head(it)])
           c   == artifactTransaction(s, aik.artifactID)
       IN  IF c.err # "none" THEN actionInputsLoopSkip(s, Tail(it), inputs)
           ELSE actionInputsLoopSkip(s, Tail(it), MapSet(inputs, aiv.Name, c.val))

RECURSIVE actionInputsLoop(_, _, _)
actionInputsLoop(s, it, inputs) ==
  IF it = <<>> THEN Ok(inputs)
  ELSE LET aik == actionInputKeyDecode(Head(it))
           aiv == actionInputValueDecode(s[Head(it)])
           c   == artifactTransaction(s, aik.artifactID)
       IN  IF c.err # "none" THEN c
           ELSE actionInputsLoop(s, Tail(it), MapSet(inputs, aiv.Name, c.val))

actionInputsTransaction(s, action) ==
  actionInputsLoop(s, GetRange(s, actionInputRange(Id(action))), <<>>)

RECURSIVE actionOutputsLoop(_, _, _)
actionOutputsLoop(s, it, outputs) ==
  IF it = <<>> THEN Ok(outputs)
  ELSE LET aok == actionOutputKeyDecode(Head(it))
           aov == actionOutputValueDecode(s[Head(it)])
           c   == artifactTransaction(s, aok.artifactID)
       IN  IF c.err # "none" THEN c
           ELSE actionOutputsLoop(s, Tail(it), MapSet(outputs, aov.Name, c.val))

actionOutputsTransaction(s, action) ==
  actionOutputsLoop(s, GetRange(s, actionOutputRange(Id(action))), <<>>)

artifactProducerTransaction(s, artifact) ==
  LET apk == [artifactID |-> Id(artifact)]
      key == artifactProducerKeyEncode(apk)
  IN  IF key \notin DOMAIN s THEN Err(NotFound)
      ELSE actionTransaction(s, artifactProducerValueDecode(s[key]).ActionID)

RECURSIVE artifactConsumersLoop(_, _, _)
artifactConsumersLoop(s, it, actions) ==
  IF it = <<>> THEN Ok(actions)
  ELSE LET ack == artifactConsumerKeyDecode(Head(it))
           c   == actionTransaction(s, ack.actionID)
       IN  IF c.err # "none" THEN c
           ELSE artifactConsumersLoop(s, Tail(it), Append(actions, c.val))

artifactConsumersTransaction(s, artifact) ==
  artifactConsumersLoop(s, GetRange(s, artifactConsumerRange(Id(artifact))), <<>>)

(* ------------------------ transaction life cycle ------------------------ *)
NoTx == [op |-> "none"]
NoRes == [op |-> "none", args |-> <<>>, err |-> "none", val |-> <<>>]
UsesId(op) == op \in {"AddAction", "AddArtifact", "AddOutput"}

\* The body a write operation passes to db.Transact, run on an empty buffer.
Body(op, args, id) ==
  CASE op = "AddAction"   -> addActionTransaction(EmptyBuffer, id, args.label, args.command)
    [] op = "AddArtifact" -> addArtifactTransaction(EmptyBuffer, id, args.label, args.kind)
    [] op = "AddInput"    -> addActionInputTransaction(EmptyBuffer, args.action, args.name, args.artifact)
    [] op = "AddOutput"   -> addActionOutputTransaction(EmptyBuffer, id, args.action, args.name,
                                                        args.label, args.kind)

Result(op, args, r) == [op |-> op, args |-> args, err |-> r.err, val |-> r.val]

Range(f) == {f[x] : x \in DOMAIN f}

\* db.Transact: first execution of the body. Each specification caps the
\* number of identifiers handed out.
BeginTx(p, op, args) ==
  /\ tx[p].op = "none"
  /\ op = "AddInput" => nInputs < MaxInputs
  /\ LET b == Body(op, args, NewV7)
     IN  tx' = [tx EXCEPT ![p] = [op |-> op, args |-> args, wr |-> b.wr, ret |-> b.ret]]
  /\ nextId' = IF UsesId(op) THEN NewV7 ELSE nextId
  /\ nInputs' = IF op = "AddInput" THEN nInputs + 1 ELSE nInputs
  /\ res' = NoRes

Begin(p, op, args) ==
  /\ BeginTx(p, op, args)
  /\ UNCHANGED <<db, cursors, outputOf, standalone, wired>>

\* The commit succeeds: the buffer becomes visible and the call returns.
Commit(p) ==
  /\ tx[p].op # "none"
  /\ LET t == tx[p] IN
     /\ db' = Apply(db, t.wr)
     /\ cursors' = CASE t.op = "AddAction" ->
                          [cursors EXCEPT !.actions = @ \cup {t.ret},
                                          !.created = Append(@, t.ret)]
                     [] t.op = "AddArtifact" ->
                          [cursors EXCEPT !.artifacts = @ \cup {t.ret}]
                     [] t.op = "AddOutput" ->
                          [cursors EXCEPT !.artifacts = @ \cup {t.ret},
                                          !.produced =
                                             Append(@, [handle |-> t.ret,
                                                        action |-> Id(t.args.action),
                                                        name |-> t.args.name])]
                     [] OTHER -> cursors
     /\ outputOf' = IF t.op = "AddOutput"
                    THEN [x \in (DOMAIN outputOf) \cup {Id(t.ret)} |->
                            IF x = Id(t.ret) THEN t.args.action ELSE outputOf[x]]
                    ELSE outputOf
     /\ standalone' = IF t.op = "AddArtifact" THEN standalone \cup {Id(t.ret)}
                      ELSE standalone
     /\ wired' = IF t.op = "AddInput"
                 THEN LET pr == <<Id(t.args.action), Id(t.args.artifact)>>
                          old == IF pr \in DOMAIN wired THEN wired[pr].names ELSE {}
                      IN  [q \in (DOMAIN wired) \cup {pr} |->
                             IF q = pr THEN [last |-> t.args.name,
                                             names |-> old \cup {t.args.name},
                                             at |-> nInputs]
                             ELSE wired[q]]
                 ELSE wired
     /\ res' = Result(t.op, <<>>, Ok(<<>>))
  /\ tx' = [tx EXCEPT ![p] = NoTx]
  /\ UNCHANGED <<nextId, nInputs>>

\* Variant: the writes of the abandoned attempt stay in the buffer.
RetryKeepBuffer(p) ==
  /\ tx[p].op # "none"
  /\ UsesId(tx[p].op)
  /\ LET t == tx[p]
         b == Body(t.op, t.args, NewV7)
     IN  tx' = [tx EXCEPT ![p] = [t EXCEPT !.wr = Apply(t.wr, b.wr), !.ret = b.ret]]
  /\ nextId' = NewV7
  /\ res' = NoRes
  /\ UNCHANGED <<db, cursors, outputOf, standalone, wired, nInputs>>

\* The commit has to be retried: the buffer is dropped and the body runs again.
Retry(p) ==
  /\ tx[p].op # "none"
  /\ UsesId(tx[p].op)
  /\ LET t == tx[p]
         b == Body(t.op, t.args, NewV7)
     IN  tx' = [tx EXCEPT ![p] = [t EXCEPT !.wr = b.wr, !.ret = b.ret]]
  /\ nextId' = NewV7
  /\ res' = NoRes
  /\ UNCHANGED <<db, cursors, outputOf, standalone, wired, nInputs>>

\* Variant: the failing transaction takes the committed records with it.
FailClearing(p) ==
  /\ tx[p].op # "none"
  /\ res' = Result(tx[p].op, <<>>, Err(StoreError))
  /\ tx' = [tx EXCEPT ![p] = NoTx]
  /\ db' = <<>>
  /\ UNCHANGED <<nextId, cursors, outputOf, standalone, wired, nInputs>>

\* The store reports an error that is not retried: nothing is committed.
Fail(p) ==
  /\ tx[p].op # "none"
  /\ res' = Result(tx[p].op, <<>>, Err(StoreError))
  /\ tx' = [tx EXCEPT ![p] = NoTx]
  /\ UNCHANGED <<db, nextId, cursors, outputOf, standalone, wired, nInputs>>

\* db.ReadTransact: the body reads one committed snapshot, or the store fails.
Read(p, op, args, r) ==
  /\ tx[p].op = "none"
  /\ \/ /\ res' = Result(op, args, r)
        /\ cursors' =
             IF r.err # "none" THEN cursors
             ELSE CASE op \in {"Action", "Producer"} ->
                         [cursors EXCEPT !.actions = @ \cup {r.val}]
                    [] op \in {"Actions", "Consumers"} ->
                         [cursors EXCEPT !.actions = @ \cup Range(r.val)]
                    [] op = "GetArtifact" ->
                         [cursors EXCEPT !.artifacts = @ \cup {r.val}]
                    [] op \in {"Inputs", "Outputs"} ->
                         [cursors EXCEPT !.artifacts = @ \cup Range(r.val)]
     \/ /\ res' = Result(op, <<>>, Err(StoreError))
        /\ cursors' = cursors
  /\ UNCHANGED <<db, nextId, tx, outputOf, standalone, wired, nInputs>>

(* ------------------------------ operations ------------------------------ *)
GraphAddAction(p, label, command) ==
  /\ Begin(p, "AddAction", [label |-> label, command |-> command])
  /\ UNCHANGED decl

GraphAddArtifact(p, label, kind) ==
  /\ Begin(p, "AddArtifact", [label |-> label, kind |-> kind])
  /\ UNCHANGED decl

AddInput(p, action, name, artifact) ==
  /\ Begin(p, "AddInput", [action |-> action, name |-> name, artifact |-> artifact])
  /\ UNCHANGED decl

AddOutput(p, action, name, label, kind) ==
  /\ Begin(p, "AddOutput", [action |-> action, name |-> name, label |-> label, kind |-> kind])
  /\ UNCHANGED decl

GraphAction(p, id) ==
  /\ Read(p, "Action", [id |-> id], actionTransaction(db, id))
  /\ UNCHANGED decl

GraphActions(p) ==
  /\ Read(p, "Actions", <<>>, actionsTransaction(db))
  /\ UNCHANGED decl

\* Graph.Actions called by a caller that keeps the list it got from its
\* previous call: listed is that list.
GraphActionsAgain ==
  /\ LET r == actionsTransaction(db) IN
     /\ res' = Result("Actions", [earlier |-> cursors.listed], r)
     /\ cursors' = [cursors EXCEPT !.actions = @ \cup Range(r.val), !.listed = r.val]
  /\ UNCHANGED <<db, nextId, tx, outputOf, standalone, wired, nInputs, decl>>

GraphGetArtifact(p, id) ==
  /\ Read(p, "GetArtifact", [id |-> id], artifactTransaction(db, id))
  /\ UNCHANGED decl

\* The store without its edges and index entries.
EntityOnly(s) == [k \in {j \in DOMAIN s : j[1] \in {"action", "artifact"}} |-> s[k]]

\* Variant: the edges are those fetched when the handle was made, which are
\* none, and not those of the store at the call.
InputsWithHandle(p, action) ==
  /\ Read(p, "Inputs", [action |-> action], actionInputsTransaction(EntityOnly(db), action))
  /\ UNCHANGED decl

Inputs(p, action) ==
  /\ Read(p, "Inputs", [action |-> action], actionInputsTransaction(db, action))
  /\ UNCHANGED decl

Outputs(p, action) ==
  /\ Read(p, "Outputs", [action |-> action], actionOutputsTransaction(db, action))
  /\ UNCHANGED decl

Producer(p, artifact) ==
  /\ Read(p, "Producer", [artifact |-> artifact], artifactProducerTransaction(db, artifact))
  /\ UNCHANGED decl

Consumers(p, artifact) ==
  /\ Read(p, "Consumers", [artifact |-> artifact], artifactConsumersTransaction(db, artifact))
  /\ UNCHANGED decl

(* ------------------------- retried read bodies -------------------------- *)
\* Variant: the accumulator outlives the execution of the body, so a second
\* execution goes on from what the first had gathered.
AttemptCarried(s, op, args, left) ==
  CASE op = "Actions"   -> actionsLoop(s, GetRange(s, actionRange), left)
    [] op = "Inputs"    ->
         actionInputsLoop(s, GetRange(s, actionInputRange(Id(args.action))), left)
    [] op = "Outputs"   ->
         actionOutputsLoop(s, GetRange(s, actionOutputRange(Id(args.action))), left)
    [] op = "Consumers" ->
         artifactConsumersLoop(s, GetRange(s, artifactConsumerRange(Id(args.artifact))), left)

\* One execution of the body of a scanning read transaction. left is what an
\* abandoned execution had gathered: the slice or the map is declared inside
\* the body, so the execution starts from an empty one.
Attempt(s, op, args, left) ==
  CASE op = "Actions"   -> actionsTransaction(s)
    [] op = "Inputs"    -> actionInputsTransaction(s, args.action)
    [] op = "Outputs"   -> actionOutputsTransaction(s, args.action)
    [] op = "Consumers" -> artifactConsumersTransaction(s, args.artifact)

\* What an execution can have gathered when the store abandons it: the first
\* entries of a slice, some entries of a map.
Gathered(op, v) ==
  IF op \in {"Actions", "Consumers"}
  THEN {SubSeq(v, 1, n) : n \in 0..Len(v)}
  ELSE {[n \in S |-> v[n]] : S \in SUBSET DOMAIN v}

\* The store abandons an execution of the body with a retryable error.
ReadAbandon(p, op, args) ==
  /\ tx[p].op = "none"
  /\ LET r == Attempt(db, op, args, <<>>) IN
     /\ r.err = "none"
     /\ \E left \in Gathered(op, r.val) :
          tx' = [tx EXCEPT ![p] = [op |-> "Read", call |-> op, args |-> args, left |-> left]]
  /\ res' = NoRes
  /\ UNCHANGED <<db, nextId, cursors, outputOf, standalone, wired, nInputs, decl>>

\* db.ReadTransact runs the body again, on the store as it is now, and the
\* call returns what this execution returns.
ReadRerun(p) ==
  /\ tx[p].op = "Read"
  /\ LET t == tx[p]
         r == Attempt(db, t.call, t.args, t.left)
     IN  /\ res' = [op |-> t.call, args |-> t.args, err |-> r.err, val |-> r.val,
                    abandoned |-> t.left]
         /\ cursors' =
              IF r.err # "none" THEN cursors
              ELSE IF t.call \in {"Actions", "Consumers"}
                   THEN [cursors EXCEPT !.actions = @ \cup Range(r.val)]
                   ELSE [cursors EXCEPT !.artifacts = @ \cup Range(r.val)]
  /\ tx' = [tx EXCEPT ![p] = NoTx]
  /\ UNCHANGED <<db, nextId, outputOf, standalone, wired, nInputs, decl>>

(* ------------------------- the action() builtin ------------------------- *)
\* Strings of the script: artifact.Id().String() and uuid.Parse. A string that
\* is not the text of a UUID is <<>>.
UuidString(id) == <<id>>
NotAUuid == <<>>
UuidParses(str) == Len(str) = 1
UuidParse(str) == str[1]

\* Values a script may give as an output kind: file(), dir(), and integers
\* that are neither.
Tokens == {ArtifactKindFile, ArtifactKindDirectory, 2, ByteRange}

\* graph.ArtifactKind(artifactTypeInt64): conversion of an int64 to a byte.
ArtifactKind(n) == n % ByteRange

Entry(name, value) == [name |-> name, value |-> value]

\* The dictionaries a script can write over the given values: the entries in
\* insertion order, no key twice.
Dicts(values) ==
  {<<>>}
    \cup {<<Entry(n, v)>> : n \in Names, v \in values}
    \cup {<<Entry(q[1], q[3]), Entry(q[2], q[4])>> :
            q \in {r \in Names \X Names \X values \X values : r[1] # r[2]}}

NoDecl ==
  [pc |-> "idle", label |-> "", command |-> "", action |-> <<>>,
   inputs |-> <<>>, outputs |-> <<>>, given |-> <<>>, declared |-> <<>>, base |-> <<>>,
   outs |-> <<>>, err |-> "none", failed |-> FALSE, run |-> FALSE, old |-> <<>>,
   prev |-> [again |-> FALSE], call |-> [rejected |-> FALSE]]

\* The call returns to the script, with an error or with the result struct.
Return(d, e) ==
  [d EXCEPT !.pc = "returned", !.err = e, !.failed = @ \/ e = StoreError]

\* The code of action() that follows the return of a store call.
Continue(d, r) ==
  CASE d.pc = "AddAction" ->
         IF r.err # "none" THEN Return(d, r.err)
         ELSE [d EXCEPT !.pc = "inputs", !.action = r.val]
    [] d.pc = "AddInput" ->
         [d EXCEPT !.pc = "inputs", !.inputs = Tail(@),
                   !.failed = @ \/ r.err = StoreError]
    [] d.pc = "AddOutput" ->
         IF r.err # "none" THEN Return(d, r.err)
         ELSE [d EXCEPT !.pc = "outputs", !.outputs = Tail(@),
                        !.outs = MapSet(@, Head(d.outputs).name, UuidString(Id(r.val)))]

\* The script goes on to its next statement unless a call has failed.
ScriptRuns == decl.pc = "idle" \/ (decl.pc = "returned" /\ decl.err = "none")

\* The statement repeats the declaration the script has just evaluated.
Again(label, command, inputs, outputs) ==
  /\ decl.pc = "returned" /\ decl.err = "none"
  /\ decl.label = label /\ decl.command = command
  /\ decl.given = inputs /\ decl.declared = outputs

\* action(name, cmd, inputs, outputs) is called: the arguments are unpacked
\* and g.AddAction is issued. given, declared and base keep the two
\* dictionaries and the store as they were at the call; run and old, whether
\* Schedule has run and the store it found, are those of the evaluation; prev
\* keeps the result of the preceding call when this call repeats it.
ScriptAction(label, command, inputs, outputs) ==
  /\ ScriptRuns
  /\ Begin(Writer, "AddAction", [label |-> label, command |-> command])
  /\ decl' = [NoDecl EXCEPT !.pc = "AddAction", !.label = label, !.command = command,
                            !.inputs = inputs, !.outputs = outputs,
                            !.given = inputs, !.declared = outputs, !.base = db,
                            !.run = decl.run, !.old = decl.old,
                            !.prev = IF Again(label, command, inputs, outputs)
                                     THEN [again |-> TRUE, action |-> decl.action,
                                           outs |-> decl.outs]
                                     ELSE [again |-> FALSE]]

\* The next entry of inputs: the value is parsed, g.GetArtifact resolves it
\* and action.AddInput is issued.
ScriptInput ==
  /\ decl.pc = "inputs" /\ decl.inputs # <<>>
  /\ tx[Writer].op = "none"
  /\ LET e == Head(decl.inputs) IN
     IF ~UuidParses(e.value)
     THEN /\ decl' = Return(decl, "Validation")
          /\ res' = NoRes
          /\ UNCHANGED <<db, nextId, tx, cursors, outputOf, standalone, wired, nInputs>>
     ELSE \E g \in {artifactTransaction(db, UuidParse(e.value)), Err(StoreError)} :
            IF g.err # "none"
            THEN /\ decl' = Return(decl, g.err)
                 /\ res' = NoRes
                 /\ UNCHANGED <<db, nextId, tx, cursors, outputOf, standalone, wired, nInputs>>
            ELSE /\ BeginTx(Writer, "AddInput",
                            [action |-> decl.action, name |-> e.name, artifact |-> g.val])
                 /\ cursors' = [cursors EXCEPT !.artifacts = @ \cup {g.val}]
                 /\ decl' = [decl EXCEPT !.pc = "AddInput"]
                 /\ UNCHANGED <<db, outputOf, standalone, wired>>

\* Variant: the outputs loop does not wait for the end of the inputs loop.
ScriptOutputEarly ==
  /\ decl.pc \in {"inputs", "outputs"}
  /\ decl.outputs # <<>>
  /\ tx[Writer].op = "none"
  /\ LET e == Head(decl.outputs)
         artifactKind == ArtifactKind(e.value)
     IN  IF artifactKind \notin {ArtifactKindFile, ArtifactKindDirectory}
         THEN /\ decl' = Return(decl, "Validation")
              /\ res' = NoRes
              /\ UNCHANGED <<db, nextId, tx, cursors, outputOf, standalone, wired, nInputs>>
         ELSE /\ Begin(Writer, "AddOutput", [action |-> decl.action, name |-> e.name,
                                             label |-> decl.label, kind |-> artifactKind])
              /\ decl' = [decl EXCEPT !.pc = "AddOutput"]

\* The next entry of outputs: the kind is checked and action.AddOutput is
\* issued with the label of the action.
ScriptOutput ==
  /\ \/ decl.pc = "outputs"
     \/ decl.pc = "inputs" /\ decl.inputs = <<>>
  /\ decl.outputs # <<>>
  /\ tx[Writer].op = "none"
  /\ LET e == Head(decl.outputs)
         artifactKind == ArtifactKind(e.value)
     IN  IF artifactKind \notin {ArtifactKindFile, ArtifactKindDirectory}
         THEN /\ decl' = Return(decl, "Validation")
              /\ res' = NoRes
              /\ UNCHANGED <<db, nextId, tx, cursors, outputOf, standalone, wired, nInputs>>
         ELSE /\ Begin(Writer, "AddOutput", [action |-> decl.action, name |-> e.name,
                                             label |-> decl.label, kind |-> artifactKind])
              /\ decl' = [decl EXCEPT !.pc = "AddOutput"]

\* Both loops are done: the struct with the outputs dictionary is returned.
ScriptReturn ==
  /\ \/ decl.pc = "outputs"
     \/ decl.pc = "inputs" /\ decl.inputs = <<>>
  /\ decl.outputs = <<>>
  /\ tx[Writer].op = "none"
  /\ decl' = Return(decl, "none")
  /\ res' = NoRes
  /\ UNCHANGED <<db, nextId, tx, cursors, outputOf, standalone, wired, nInputs>>

\* The store call of the script thread completes and action() goes on.
ScriptCommit ==
  /\ decl.pc \in {"AddAction", "AddInput", "AddOutput"}
  /\ Commit(Writer)
  /\ decl' = Continue(decl, Ok(tx[Writer].ret))

ScriptRetry ==
  /\ decl.pc \in {"AddAction", "AddInput", "AddOutput"}
  /\ Retry(Writer)
  /\ UNCHANGED decl

ScriptFail ==
  /\ decl.pc \in {"AddAction", "AddInput", "AddOutput"}
  /\ Fail(Writer)
  /\ decl' = Continue(decl, Err(StoreError))

(* ------------------------------- Schedule -------------------------------- *)
\* Every key of the store starts with the packed name of its subspace, a
\* tuple string, whose first byte is the type code 2.
FirstByte(k) == 2

\* t.ClearRange(KeyRange{Begin, End}): the keys from begin up to end go.
ClearRange(s, begin, end) ==
  [k \in {j \in DOMAIN s : ~(begin <= FirstByte(j) /\ FirstByte(j) < end)} |-> s[k]]

\* clearDatabase: one transaction that clears the range from 0x00 to 0xFF;
\* it commits, or the store fails and nothing is cleared.
clearDatabase(s, ok) == IF ok THEN ClearRange(s, 0, 255) ELSE s

\* The schedule command is run: the store is opened, clearDatabase is called
\* and its result is not looked at, then the script is evaluated.
Schedule ==
  /\ decl.pc \in {"idle", "returned"}
  /\ tx[Writer].op = "none"
  /\ \E ok \in BOOLEAN : db' = clearDatabase(db, ok)
  /\ decl' = [NoDecl EXCEPT !.run = TRUE, !.old = db]
  /\ res' = NoRes
  /\ UNCHANGED <<nextId, tx, cursors, outputOf, standalone, wired, nInputs>>

(* ----------------------------- specifications --------------------------- *)
Init ==
  /\ db = <<>>
  /\ nextId = 0
  /\ tx = [p \in Callers |-> NoTx]
  /\ res = NoRes
  /\ cursors = [actions |-> {}, artifacts |-> {}, created |-> <<>>, produced |-> <<>>,
               listed |-> <<>>]
  /\ outputOf = <<>>
  /\ standalone = {}
  /\ wired = <<>>
  /\ nInputs = 0
  /\ decl = NoDecl

\* One step of a caller of the write operations.
Write(p) ==
  \/ \E l \in Labels, c \in Commands : nextId < MaxIds /\ GraphAddAction(p, l, c)
  \/ \E l \in ArtifactLabels, k \in RawKinds : nextId < MaxIds /\ GraphAddArtifact(p, l, k)
  \/ \E a \in cursors.actions, n \in Names, x \in cursors.artifacts : AddInput(p, a, n, x)
  \/ \E a \in cursors.actions, n \in Names, l \in ArtifactLabels, k \in RawKinds :
       nextId < MaxIds /\ AddOutput(p, a, n, l, k)
  \/ Commit(p) /\ UNCHANGED decl
  \/ nextId < MaxIds /\ Retry(p) /\ UNCHANGED decl
  \/ Fail(p) /\ UNCHANGED decl

\* One call of a read operation.
ReadCall(p) ==
  \/ \E id \in Ids : GraphAction(p, id)
  \/ GraphActions(p)
  \/ \E id \in Ids : GraphGetArtifact(p, id)
  \/ \E a \in cursors.actions : Inputs(p, a)
  \/ \E a \in cursors.actions : Outputs(p, a)
  \/ \E x \in cursors.artifacts : Producer(p, x)
  \/ \E x \in cursors.artifacts : Consumers(p, x)

\* Concurrent callers of the write operations.
Next == \E p \in Callers : Write(p)

Spec == Init /\ [][Next]_vars

\* A caller of the write operations and a concurrent caller of the accessors.
NextRead == Write(Writer) \/ ReadCall(Writer)

SpecRead == Init /\ [][NextRead]_vars

\* A reader beside a writer: the reader's calls fall between the steps of the
\* writer's transactions, and the store may run a scan twice.
Reader == "other"

NextSnapshot ==
  \/ \E l \in Labels, c \in Commands : nextId < MaxIds /\ GraphAddAction(Writer, l, c)
  \/ \E a \in cursors.actions, n \in Names, l \in ArtifactLabels, k \in RawKinds :
       nextId < MaxIds /\ AddOutput(Writer, a, n, l, k)
  \/ \E a \in cursors.actions, n \in Names, x \in cursors.artifacts :
       AddInput(Writer, a, n, x)
  \/ Commit(Writer) /\ UNCHANGED decl
  \/ GraphActions(Reader)
  \/ \E a \in cursors.actions : Inputs(Reader, a)
  \/ \E a \in cursors.actions : Outputs(Reader, a)
  \/ \E x \in cursors.artifacts : Producer(Reader, x)
  \/ \E x \in cursors.artifacts : Consumers(Reader, x)
  \/ ReadAbandon(Reader, "Actions", <<>>)
  \/ \E a \in cursors.actions : ReadAbandon(Reader, "Inputs", [action |-> a])
  \/ \E a \in cursors.actions : ReadAbandon(Reader, "Outputs", [action |-> a])
  \/ \E x \in cursors.artifacts : ReadAbandon(Reader, "Consumers", [artifact |-> x])
  \/ ReadRerun(Reader)

SpecSnapshot == Init /\ [][NextSnapshot]_vars

\* Another run of the schedule command clears the store while this caller
\* holds handles.
Wipe ==
  /\ \E ok \in BOOLEAN : db' = clearDatabase(db, ok)
  /\ db' # db
  /\ res' = NoRes
  /\ UNCHANGED <<nextId, tx, cursors, outputOf, standalone, wired, nInputs, decl>>

NextWipe ==
  \/ \E l \in Labels, c \in Commands : nextId < MaxIds /\ GraphAddAction(Writer, l, c)
  \/ \E a \in cursors.actions, n \in Names, l \in ArtifactLabels, k \in RawKinds :
       nextId < MaxIds /\ AddOutput(Writer, a, n, l, k)
  \/ \E a \in cursors.actions, n \in Names, x \in cursors.artifacts :
       AddInput(Writer, a, n, x)
  \/ Commit(Writer) /\ UNCHANGED decl
  \/ Wipe
  \/ \E a \in cursors.actions : Inputs(Writer, a)
  \/ \E a \in cursors.actions : Outputs(Writer, a)
  \/ \E x \in cursors.artifacts : Producer(Writer, x)
  \/ \E x \in cursors.artifacts : Consumers(Writer, x)

SpecWipe == Init /\ [][NextWipe]_vars

\* One caller of the creating operations whose transactions the store may
\* run more than once and never fails.
NextRetry ==
  \/ \E l \in Labels, c \in Commands : nextId < MaxWideIds /\ GraphAddAction(Writer, l, c)
  \/ \E l \in ArtifactLabels, k \in Kinds : nextId < MaxWideIds /\ GraphAddArtifact(Writer, l, k)
  \/ \E a \in cursors.actions, n \in Names, l \in ArtifactLabels, k \in Kinds :
       nextId < MaxWideIds /\ AddOutput(Writer, a, n, l, k)
  \/ Commit(Writer) /\ UNCHANGED decl
  \/ nextId < MaxWideIds /\ Retry(Writer) /\ UNCHANGED decl

SpecRetry == Init /\ [][NextRetry]_vars

\* Callers creating actions at the same time, and a caller listing them.
NextListing ==
  \/ \E p \in Callers, l \in Labels, c \in Commands :
       nextId < MaxWideIds /\ GraphAddAction(p, l, c)
  \/ \E p \in Callers : Commit(p) /\ UNCHANGED decl
  \/ GraphActionsAgain

SpecListing == Init /\ [][NextListing]_vars

\* Two callers racing AddOutput and AddInput on the actions one of them has
\* created.
NextRace ==
  \/ \E l \in Labels, c \in Commands : nextId < MaxWideIds /\ GraphAddAction(Writer, l, c)
  \/ \E p \in Callers, a \in cursors.actions, n \in Names, l \in ArtifactLabels, k \in RawKinds :
       nextId < MaxWideIds /\ AddOutput(p, a, n, l, k)
  \/ \E p \in Callers, a \in cursors.actions, n \in Names, x \in cursors.artifacts :
       AddInput(p, a, n, x)
  \/ \E p \in Callers : Commit(p) /\ UNCHANGED decl
  \/ \E p \in Callers : nextId < MaxWideIds /\ Retry(p) /\ UNCHANGED decl
  \/ \E p \in Callers : Fail(p) /\ UNCHANGED decl

SpecRace == Init /\ [][NextRace]_vars

\* The script thread evaluating action() statements one after the other.
\* The strings a statement can pass as an input: the id of an artifact made by
\* an earlier statement, a UUID that was never handed out, or other text.
InputValues ==
  {UuidString(Id(c)) : c \in cursors.artifacts} \cup {UuidString(0), NotAUuid}

NextScript ==
  \/ /\ ScriptRuns /\ tx[Writer].op = "none" /\ nextId < MaxIds
     /\ \E l \in Labels, c \in Commands, ins \in Dicts(InputValues), outs \in Dicts(Tokens) :
          ScriptAction(l, c, ins, outs)
  \/ ScriptInput
  \/ ScriptOutput /\ nextId' <= MaxIds
  \/ ScriptReturn
  \/ ScriptCommit
  \/ ScriptRetry /\ nextId' <= MaxIds
  \/ ScriptFail

SpecScript == Init /\ [][NextScript]_vars

(* ----------------------- arguments of the builtins ---------------------- *)
\* Values of the script, and the mark of a keyword that is not given.
starlarkString(s) == [type |-> "string", s |-> s]
starlarkInt(n) == [type |-> "int", n |-> n]
starlarkDict(d) == [type |-> "dict", d |-> d]
None == [type |-> "NoneType"]
Absent == [type |-> "absent"]

\* Variant: a keyword that is missing or of another type is given its zero
\* value.
UnpackArgsLenient(args, kwargs) ==
  Ok([label   |-> IF kwargs.name.type = "string" THEN kwargs.name.s ELSE "",
      command |-> IF kwargs.cmd.type = "string" THEN kwargs.cmd.s ELSE "",
      inputs  |-> IF kwargs.inputs.type = "dict" THEN kwargs.inputs.d ELSE <<>>,
      outputs |-> IF kwargs.outputs.type = "dict" THEN kwargs.outputs.d ELSE <<>>])

\* starlark.UnpackArgs("action", args, kwargs, "name", &label, "cmd", &command,
\* "inputs?", &inputs, "outputs?", &outputs): name and cmd are required
\* strings, inputs and outputs are dictionaries when given, no other keyword
\* is known. An omitted dictionary stays nil and its loop is not entered.
UnpackArgs(args, kwargs) ==
  IF \/ Len(args) > 0
     \/ kwargs.unknown
     \/ kwargs.name.type # "string"
     \/ kwargs.cmd.type # "string"
     \/ kwargs.inputs.type \notin {"absent", "dict"}
     \/ kwargs.outputs.type \notin {"absent", "dict"}
  THEN Err("Validation")
  ELSE Ok([label   |-> kwargs.name.s,
           command |-> kwargs.cmd.s,
           inputs  |-> IF kwargs.inputs.type = "dict" THEN kwargs.inputs.d ELSE <<>>,
           outputs |-> IF kwargs.outputs.type = "dict" THEN kwargs.outputs.d ELSE <<>>])

\* action(...) as the script calls it: positional arguments are refused, the
\* keywords are unpacked, and only then is g.AddAction issued.
ScriptCall(args, kwargs) ==
  LET u == IF Len(args) > 0 THEN Err("Validation") ELSE UnpackArgs(args, kwargs)
  IN  IF u.err # "none"
      THEN /\ ScriptRuns
           /\ tx[Writer].op = "none"
           /\ decl' = Return([NoDecl EXCEPT !.base = db, !.run = decl.run, !.old = decl.old,
                                            !.call = [rejected |-> TRUE, args |-> args,
                                                      kwargs |-> kwargs]],
                             u.err)
           /\ res' = NoRes
           /\ UNCHANGED <<db, nextId, tx, cursors, outputOf, standalone, wired, nInputs>>
      ELSE ScriptAction(u.val.label, u.val.command, u.val.inputs, u.val.outputs)

\* file(): the File token, or an error when anything is passed.
file(args, kwargs) ==
  IF Len(args) > 0 \/ Len(kwargs) > 0 THEN Err("Validation")
  ELSE Ok(starlarkInt(ArtifactKindFile))

\* Variant: dir() returns the token of file().
dirAsFile(args, kwargs) ==
  IF Len(args) > 0 \/ Len(kwargs) > 0 THEN Err("Validation")
  ELSE Ok(starlarkInt(ArtifactKindFile))

\* dir(): the Directory token, or an error when anything is passed.
dir(args, kwargs) ==
  IF Len(args) > 0 \/ Len(kwargs) > 0 THEN Err("Validation")
  ELSE Ok(starlarkInt(ArtifactKindDirectory))

\* The script calls file() or dir(); an error ends the evaluation.
ScriptBuiltin(name, r, args, kwargs) ==
  /\ ScriptRuns
  /\ tx[Writer].op = "none"
  /\ res' = Result(name, [args |-> args, kwargs |-> kwargs], r)
  /\ decl' = IF r.err # "none" THEN Return(decl, r.err) ELSE decl
  /\ UNCHANGED <<db, nextId, tx, cursors, outputOf, standalone, wired, nInputs>>

ScriptFile(args, kwargs) == ScriptBuiltin("file", file(args, kwargs), args, kwargs)

ScriptDir(args, kwargs) == ScriptBuiltin("dir", dir(args, kwargs), args, kwargs)

\* A script whose statements are well formed: inputs name artifacts made by
\* earlier statements and outputs are file() or dir().
ArtifactIds == {UuidString(Id(c)) : c \in cursors.artifacts}

NextWorkflow ==
  \/ /\ ScriptRuns /\ tx[Writer].op = "none" /\ nextId < MaxWideIds
     /\ \E l \in Labels, c \in Commands, ins \in Dicts(ArtifactIds), outs \in Dicts(Kinds) :
          ScriptAction(l, c, ins, outs)
  \/ ScriptInput
  \/ ScriptOutput /\ nextId' <= MaxWideIds
  \/ ScriptReturn
  \/ ScriptCommit
  \/ ScriptRetry /\ nextId' <= MaxWideIds
  \/ ScriptFail

SpecWorkflow == Init /\ [][NextWorkflow]_vars

\* The calls a script can write: every keyword given well, omitted, or given
\* with a value of another type; a positional argument; an unknown keyword.
Positional == {<<>>, <<starlarkString("l1")>>}
Keywords == {<<>>, <<<<"mode", starlarkInt(0)>>>>}

Kwargs(name, cmd, inputs, outputs, unknown) ==
  [name |-> name, cmd |-> cmd, inputs |-> inputs, outputs |-> outputs, unknown |-> unknown]

GoodCalls ==
  {[args |-> <<>>, kwargs |-> Kwargs(starlarkString(l), starlarkString(c), i, o, FALSE)] :
     l \in Labels, c \in Commands,
     i \in {Absent} \cup {starlarkDict(d) : d \in Dicts(ArtifactIds)},
     o \in {Absent} \cup {starlarkDict(d) : d \in Dicts(Kinds)}}

BadCalls ==
  LET l == starlarkString("l1")
      c == starlarkString("c1")
      d == starlarkDict(<<Entry("n1", ArtifactKindFile)>>)
  IN  {[args |-> <<l>>, kwargs |-> Kwargs(l, c, Absent, d, FALSE)],
       [args |-> <<>>, kwargs |-> Kwargs(l, c, Absent, d, TRUE)]}
      \cup {[args |-> <<>>, kwargs |-> Kwargs(n, c, Absent, d, FALSE)] : n \in {Absent, starlarkInt(0), None}}
      \cup {[args |-> <<>>, kwargs |-> Kwargs(l, n, Absent, d, FALSE)] : n \in {Absent, starlarkInt(0), None}}
      \cup {[args |-> <<>>, kwargs |-> Kwargs(l, c, n, d, FALSE)] : n \in {l, starlarkInt(0), None}}
      \cup {[args |-> <<>>, kwargs |-> Kwargs(l, c, Absent, n, FALSE)] : n \in {l, starlarkInt(0), None}}

NextBuiltins ==
  \/ /\ ScriptRuns /\ tx[Writer].op = "none" /\ nextId < MaxIds
     /\ \E call \in GoodCalls \cup BadCalls : ScriptCall(call.args, call.kwargs)
  \/ ScriptInput
  \/ ScriptOutput /\ nextId' <= MaxIds
  \/ ScriptReturn
  \/ ScriptCommit
  \/ \E args \in Positional, kwargs \in Keywords : ScriptFile(args, kwargs)
  \/ \E args \in Positional, kwargs \in Keywords : ScriptDir(args, kwargs)

SpecBuiltins == Init /\ [][NextBuiltins]_vars

\* Runs of the schedule command, one after the other, on the same store.
NextSchedule == Schedule \/ NextScript

SpecSchedule == Init /\ [][NextSchedule]_vars

(* ------------------------------ codec laws ------------------------------ *)
\* Keys and values of the six kinds, the zero id and the empty string included.
CodecIds == 0..MaxIds

KeySamples ==
  {[type |-> "action", key |-> [id |-> i]] : i \in CodecIds} \cup
  {[type |-> "artifact", key |-> [id |-> i]] : i \in CodecIds} \cup
  {[type |-> "input", key |-> [actionID |-> i, artifactID |-> j]] :
     i \in CodecIds, j \in CodecIds} \cup
  {[type |-> "output", key |-> [actionID |-> i, artifactID |-> j]] :
     i \in CodecIds, j \in CodecIds} \cup
  {[type |-> "producer", key |-> [artifactID |-> i]] : i \in CodecIds} \cup
  {[type |-> "consumer", key |-> [artifactID |-> i, actionID |-> j]] :
     i \in CodecIds, j \in CodecIds}

ValueSamples ==
  {[type |-> "action", value |-> [Label |-> l, Command |-> c]] :
     l \in Labels \cup {""}, c \in Commands \cup {""}} \cup
  {[type |-> "artifact", value |-> [Label |-> l, Kind |-> k]] :
     l \in ArtifactLabels \cup {""}, k \in Kinds} \cup
  {[type |-> "input", value |-> [Name |-> n]] : n \in Names \cup {""}} \cup
  {[type |-> "output", value |-> [Name |-> n]] : n \in Names \cup {""}} \cup
  {[type |-> "producer", value |-> [ActionID |-> i]] : i \in CodecIds} \cup
  {[type |-> "consumer", value |-> <<>>]}

KeyEncode(k) ==
  CASE k.type = "action"   -> actionKeyEncode(k.key)
    [] k.type = "artifact" -> artifactKeyEncode(k.key)
    [] k.type = "input"    -> actionInputKeyEncode(k.key)
    [] k.type = "output"   -> actionOutputKeyEncode(k.key)
    [] k.type = "producer" -> artifactProducerKeyEncode(k.key)
    [] k.type = "consumer" -> artifactConsumerKeyEncode(k.key)

KeyDecode(type, key) ==
  CASE type = "action"   -> actionKeyDecode(key)
    [] type = "artifact" -> artifactKeyDecode(key)
    [] type = "input"    -> actionInputKeyDecode(key)
    [] type = "output"   -> actionOutputKeyDecode(key)
    [] type = "producer" -> artifactProducerKeyDecode(key)
    [] type = "consumer" -> artifactConsumerKeyDecode(key)

ValueEncode(v) ==
  CASE v.type = "action"   -> actionValueEncode(v.value)
    [] v.type = "artifact" -> artifactValueEncode(v.value)
    [] v.type = "input"    -> actionInputValueEncode(v.value)
    [] v.type = "output"   -> actionOutputValueEncode(v.value)
    [] v.type = "producer" -> artifactProducerValueEncode(v.value)
    [] v.type = "consumer" -> artifactConsumerValueEncode(v.value)

ValueDecode(type, data) ==
  CASE type = "action"   -> actionValueDecode(data)
    [] type = "artifact" -> artifactValueDecode(data)
    [] type = "input"    -> actionInputValueDecode(data)
    [] type = "output"   -> actionOutputValueDecode(data)
    [] type = "producer" -> artifactProducerValueDecode(data)
    [] type = "consumer" -> artifactConsumerValueDecode(data)

\* Two keys and a value are given; they are encoded, and the encodings are
\* decoded into fresh receivers.
InitCodec ==
  /\ db = <<>>
  /\ nextId = 0
  /\ tx = [p \in Callers |-> NoTx]
  /\ \E k \in KeySamples, o \in KeySamples, v \in ValueSamples :
       res = [op |-> "Given", args |-> [key |-> k, other |-> o, value |-> v],
              err |-> "none", val |-> <<>>]
  /\ cursors = [actions |-> {}, artifacts |-> {}, created |-> <<>>, produced |-> <<>>,
               listed |-> <<>>]
  /\ outputOf = <<>>
  /\ standalone = {}
  /\ wired = <<>>
  /\ nInputs = 0
  /\ decl = NoDecl

CodecEncode ==
  /\ res.op = "Given"
  /\ res' = [res EXCEPT !.op = "Encode",
                        !.val = [key   |-> KeyEncode(res.args.key),
                                 other |-> KeyEncode(res.args.other),
                                 value |-> ValueEncode(res.args.value)]]
  /\ UNCHANGED <<db, nextId, tx, cursors, outputOf, standalone, wired, nInputs, decl>>

CodecDecode ==
  /\ res.op = "Encode"
  /\ res' = [res EXCEPT !.op = "Decode",
                        !.val = [key   |-> KeyDecode(res.args.key.type, res.val.key),
                                 value |-> ValueDecode(res.args.value.type, res.val.value)]]
  /\ UNCHANGED <<db, nextId, tx, cursors, outputOf, standalone, wired, nInputs, decl>>

NextCodec == CodecEncode \/ CodecDecode

SpecCodec == InitCodec /\ [][NextCodec]_vars

TypeOK ==
  /\ nextId \in Nat
  /\ \A k \in DOMAIN db : k[1] \in {"action", "artifact", "input", "output", "producer", "consumer"}

(* ------------------------------- claims --------------------------------- *)
KeysOf(ns) == {k \in DOMAIN db : k[1] = ns}
HasAction(id) == actionKeyEncode([id |-> id]) \in DOMAIN db
HasArtifact(id) == artifactKeyEncode([id |-> id]) \in DOMAIN db
ArtifactHandle(x) == CHOOSE c \in cursors.artifacts : Id(c) = x
ActionHandle(a) == CHOOSE c \in cursors.actions : Id(c) = a
IdsOf(seq) == {Id(seq[i]) : i \in 1..Len(seq)}

\* C1: in every committed state an output edge (a, x) exists exactly when the
\* producer entry x -> a exists, and then the artifact record x exists too.
C1_OutputWritesAtomic ==
  /\ \A k \in KeysOf("output") :
       LET e  == actionOutputKeyDecode(k)
           pk == artifactProducerKeyEncode([artifactID |-> e.artifactID])
       IN  /\ pk \in DOMAIN db
           /\ artifactProducerValueDecode(db[pk]).ActionID = e.actionID
           /\ HasArtifact(e.artifactID)
  /\ \A k \in KeysOf("producer") :
       LET x == k[2]
           a == artifactProducerValueDecode(db[k]).ActionID
       IN  /\ actionOutputKeyEncode([actionID |-> a, artifactID |-> x]) \in DOMAIN db
           /\ HasArtifact(x)

\* An output has been committed while another caller has an AddOutput in flight.
C1_Witness ==
  /\ KeysOf("output") # {}
  /\ \E p \in Callers : tx[p].op = "AddOutput"

\* C2: in every committed state an input edge keyed (a, x) exists exactly
\* when the consumer entry keyed (x, a) exists.
C2_InputConsumerPaired ==
  /\ \A k \in KeysOf("input") :
       LET e == actionInputKeyDecode(k)
       IN  artifactConsumerKeyEncode([artifactID |-> e.artifactID, actionID |-> e.actionID])
             \in DOMAIN db
  /\ \A k \in KeysOf("consumer") :
       LET e == artifactConsumerKeyDecode(k)
       IN  actionInputKeyEncode([actionID |-> e.actionID, artifactID |-> e.artifactID])
             \in DOMAIN db

\* An input edge is committed while another caller has an AddInput in flight.
C2_Witness ==
  /\ KeysOf("input") # {}
  /\ \E p \in Callers : tx[p].op = "AddInput"

\* C3: every artifact has at most one producer entry and is the artifact of at
\* most one output edge, over all actions.
C3_AtMostOneProducer ==
  \A x \in Ids :
    /\ Cardinality({k \in KeysOf("producer") : k[2] = x}) <= 1
    /\ Cardinality({k \in KeysOf("output") : actionOutputKeyDecode(k).artifactID = x}) <= 1

\* Two actions exist, one of them has produced an artifact and the artifact
\* has been wired to an action as an input.
C3_Witness ==
  /\ Cardinality(KeysOf("action")) >= 2
  /\ KeysOf("output") # {}
  /\ \E k \in KeysOf("input") : actionInputKeyDecode(k).artifactID \in DOMAIN outputOf

\* C4: Producer() on an artifact that AddOutput returned for action a never
\* fails for want of a record and returns a, with a's label and command,
\* whatever was called in between.
C4_ProducerOfOutput ==
  /\ \A c \in cursors.artifacts :
       Id(c) \in DOMAIN outputOf =>
         artifactProducerTransaction(db, c) = Ok(outputOf[Id(c)])
  /\ (res.op = "Producer" /\ res.err # StoreError /\ Id(res.args.artifact) \in DOMAIN outputOf)
       => (res.err = "none" /\ res.val = outputOf[Id(res.args.artifact)])

\* Producer() has returned for an output artifact after a later AddInput.
C4_Witness ==
  /\ res.op = "Producer" /\ res.err = "none"
  /\ Id(res.args.artifact) \in DOMAIN outputOf
  /\ wired # <<>>

\* C5: Producer() on an artifact made by Graph.AddArtifact fails with
\* not-found at any later time, also once the artifact is wired as an input,
\* and the failing call leaves the store as it was.
C5_StandaloneStates ==
  /\ \A c \in cursors.artifacts :
       Id(c) \in standalone => artifactProducerTransaction(db, c) = Err(NotFound)
  /\ (res.op = "Producer" /\ res.err # StoreError /\ Id(res.args.artifact) \in standalone)
       => res.err = NotFound

C5_StandaloneNoProducer ==
  /\ []C5_StandaloneStates
  /\ [][(res'.op = "Producer" /\ res'.err = NotFound) => db' = db]_vars

\* Producer() has failed on a standalone artifact that is wired as an input.
C5_Witness ==
  /\ res.op = "Producer" /\ res.err = NotFound
  /\ Id(res.args.artifact) \in standalone
  /\ \E pr \in DOMAIN wired : pr[2] = Id(res.args.artifact)

ConsumersHas(a, x) ==
  LET r == artifactConsumersTransaction(db, ArtifactHandle(x))
  IN  r.err = "none" /\ a \in IdsOf(r.val)

InputsMaps(a, n, x) ==
  LET r == actionInputsTransaction(db, ActionHandle(a))
  IN  r.err = "none" /\ n \in DOMAIN r.val /\ Id(r.val[n]) = x

\* C6 as stated: for every (a, n, x) wired by a successful AddInput, after any
\* further calls Consumers(x) contains a and Inputs(a) maps n to x.
C6_Original ==
  \A pr \in DOMAIN wired : \A n \in wired[pr].names :
    ConsumersHas(pr[1], pr[2]) /\ InputsMaps(pr[1], n, pr[2])

\* C6 amended: for every (a, n, x) wired by a successful AddInput, after any
\* further calls Consumers(x) contains a; Inputs(a) maps n to x as long as n
\* is the name most recently wired for the pair (a, x) and no other artifact
\* is wired to a under the name n.
C6_WiredIsResolved ==
  \A pr \in DOMAIN wired :
    /\ ConsumersHas(pr[1], pr[2])
    /\ (\A q \in DOMAIN wired :
          (q[1] = pr[1] /\ q[2] # pr[2]) => wired[q].last # wired[pr].last)
         => InputsMaps(pr[1], wired[pr].last, pr[2])

\* Inputs() has returned for an action one of whose inputs was wired again
\* under a second name.
C6_Witness ==
  /\ res.op = "Inputs" /\ res.err = "none"
  /\ \E pr \in DOMAIN wired :
       /\ pr[1] = Id(res.args.action)
       /\ Cardinality(wired[pr].names) = 2
       /\ DOMAIN res.val = {wired[pr].last}

\* C7: after AddInput was called for the same (action, artifact) with two
\* different names there is exactly one input edge for the pair, it carries
\* the second name, there is exactly one consumer entry for the pair and
\* Consumers(artifact) lists the action once.
C7_RewireOverwrites ==
  \A pr \in DOMAIN wired :
    Cardinality(wired[pr].names) >= 2 =>
      LET a == pr[1]
          x == pr[2]
          edges == {k \in DOMAIN db : HasPrefix(k, actionInputRange(a) \o <<x>>)}
          marks == {k \in DOMAIN db : HasPrefix(k, artifactConsumerRange(x) \o <<a>>)}
          r == artifactConsumersTransaction(db, ArtifactHandle(x))
      IN  /\ Cardinality(edges) = 1
          /\ \A k \in edges : actionInputValueDecode(db[k]).Name = wired[pr].last
          /\ Cardinality(marks) = 1
          /\ r.err = "none"
          /\ Cardinality({i \in 1..Len(r.val) : Id(r.val[i]) = a}) = 1

\* Consumers() has returned for an artifact wired twice, under two names, to
\* the same action.
C7_Witness ==
  /\ res.op = "Consumers" /\ res.err = "none"
  /\ \E pr \in DOMAIN wired :
       /\ pr[2] = Id(res.args.artifact)
       /\ Cardinality(wired[pr].names) = 2

\* C8: every input edge, output edge, producer entry and consumer entry
\* refers to an action record and an artifact record that exist in the store.
C8_ReferentialIntegrity ==
  /\ \A k \in KeysOf("input") :
       HasAction(actionInputKeyDecode(k).actionID) /\ HasArtifact(actionInputKeyDecode(k).artifactID)
  /\ \A k \in KeysOf("output") :
       HasAction(actionOutputKeyDecode(k).actionID) /\ HasArtifact(actionOutputKeyDecode(k).artifactID)
  /\ \A k \in KeysOf("producer") :
       HasArtifact(k[2]) /\ HasAction(artifactProducerValueDecode(db[k]).ActionID)
  /\ \A k \in KeysOf("consumer") :
       HasArtifact(artifactConsumerKeyDecode(k).artifactID)
         /\ HasAction(artifactConsumerKeyDecode(k).actionID)

\* All four relations are populated while two callers have writes in flight.
C8_Witness ==
  /\ KeysOf("input") # {} /\ KeysOf("output") # {}
  /\ KeysOf("producer") # {} /\ KeysOf("consumer") # {}
  /\ \A p \in Callers : tx[p].op # "none"

\* C9: when a store operation issued for an action() call fails with a store
\* error, the call returns an error to the script.
C9_StoreFailurePropagates ==
  (decl.pc = "returned" /\ decl.failed) => decl.err # "none"

DeclaredNames == {decl.declared[i].name : i \in 1..Len(decl.declared)}

\* C10: when action() returns successfully, outputs has one entry per declared
\* output name; its value is the id of an artifact that GetArtifact resolves
\* with the declared kind, whose Producer() is the action of this call, and
\* Outputs() of that action maps the name to that artifact.
C10_OutputsResult ==
  (decl.pc = "returned" /\ decl.err = "none") =>
    /\ DOMAIN decl.outs = DeclaredNames
    /\ \A i \in 1..Len(decl.declared) :
         LET e == decl.declared[i]
             x == UuidParse(decl.outs[e.name])
             g == artifactTransaction(db, x)
             o == actionOutputsTransaction(db, decl.action)
         IN  /\ g.err = "none"
             /\ g.val.value.Kind = e.value
             /\ artifactProducerTransaction(db, g.val) = Ok(decl.action)
             /\ o.err = "none"
             /\ e.name \in DOMAIN o.val
             /\ Id(o.val[e.name]) = x

\* The keys of one namespace that the store holds now and did not hold when
\* the action() call was made.
Added(ns) == {k \in KeysOf(ns) : k \notin DOMAIN decl.base}

\* The artifact ids the inputs dictionary of the call refers to.
GivenIds ==
  {UuidParse(decl.given[i].value) :
     i \in {j \in 1..Len(decl.given) : UuidParses(decl.given[j].value)}}

\* C11: an action() call that returns successfully with m declared outputs and
\* inputs referring to d distinct existing artifacts has added exactly one
\* action record, m artifact records, m output edges, m producer entries,
\* d input edges and d consumer entries and has changed nothing else; a call
\* with one File output and no inputs on an empty store leaves 1 action and
\* 1 artifact of kind File whose producer is the action and which has no
\* consumer.
C11_DeclarationAdds ==
  (decl.pc = "returned" /\ decl.err = "none") =>
    LET m == Len(decl.declared)
        d == Cardinality(GivenIds)
    IN  /\ \A k \in DOMAIN decl.base : k \in DOMAIN db /\ db[k] = decl.base[k]
        /\ Added("action") = {actionKeyEncode(decl.action.key)}
        /\ Cardinality(Added("artifact")) = m
        /\ Cardinality(Added("output")) = m
        /\ Cardinality(Added("producer")) = m
        /\ Cardinality(Added("input")) = d
        /\ Cardinality(Added("consumer")) = d
        /\ (decl.base = <<>> /\ decl.given = <<>> /\ m = 1
              /\ decl.declared[1].value = ArtifactKindFile)
             => /\ Cardinality(KeysOf("action")) = 1
                /\ Cardinality(KeysOf("artifact")) = 1
                /\ \A k \in KeysOf("artifact") :
                     LET x == artifactTransaction(db, artifactKeyDecode(k).id).val
                     IN  /\ x.value.Kind = ArtifactKindFile
                         /\ artifactProducerTransaction(db, x) = Ok(decl.action)
                         /\ artifactConsumersTransaction(db, x) = Ok(<<>>)

\* The inputs entry i of the call is the text of an id that had no artifact
\* record when the call was made.
Unresolvable(i) ==
  /\ UuidParses(decl.given[i].value)
  /\ artifactKeyEncode([id |-> UuidParse(decl.given[i].value)]) \notin DOMAIN decl.base

\* The artifact ids of the inputs entries before entry i.
GivenBefore(i) ==
  {UuidParse(decl.given[j].value) :
     j \in {h \in 1..(i - 1) : UuidParses(decl.given[h].value)}}

\* C12: an action() call whose inputs hold an id GetArtifact cannot resolve
\* returns an error; during and after the call the store has no input edge and
\* no consumer entry of this call for that entry or a later one, and none of
\* the declared output artifacts is created.
C12_UnresolvableInput ==
  \A i \in 1..Len(decl.given) :
    Unresolvable(i) =>
      /\ decl.pc = "returned" => decl.err # "none"
      /\ \A k \in Added("input") : actionInputKeyDecode(k).artifactID \in GivenBefore(i)
      /\ \A k \in Added("consumer") : artifactConsumerKeyDecode(k).artifactID \in GivenBefore(i)
      /\ Added("artifact") = {} /\ Added("output") = {} /\ Added("producer") = {}

\* A call has returned not-found at its second input after wiring the first.
C12_Witness ==
  /\ decl.pc = "returned" /\ decl.err = NotFound
  /\ Len(decl.given) = 2 /\ Unresolvable(2)
  /\ Added("input") # {} /\ Added("consumer") # {}

\* The records of an action() call that has returned an error: the records of
\* earlier statements, the action record, the edges of the inputs wired and
\* the artifacts, edges and producer entries of the outputs added before the
\* failure are in the store as they were committed.
C13_Committed ==
  (decl.pc = "returned" /\ decl.err # "none") =>
    /\ \A k \in DOMAIN decl.base : k \in DOMAIN db /\ db[k] = decl.base[k]
    /\ Added("action") # {} =>
         LET a == Id(decl.action) IN
         /\ Added("action") = {actionKeyEncode([id |-> a])}
         /\ db[actionKeyEncode([id |-> a])]
              = actionValueEncode([Label |-> decl.label, Command |-> decl.command])
         /\ \A pr \in DOMAIN wired :
              pr[1] = a =>
                LET ik == actionInputKeyEncode([actionID |-> a, artifactID |-> pr[2]])
                    ck == artifactConsumerKeyEncode([artifactID |-> pr[2], actionID |-> a])
                IN  /\ ik \in DOMAIN db
                    /\ actionInputValueDecode(db[ik]).Name = wired[pr].last
                    /\ ck \in DOMAIN db
         /\ \A n \in DOMAIN decl.outs :
              LET x  == UuidParse(decl.outs[n])
                  ok == actionOutputKeyEncode([actionID |-> a, artifactID |-> x])
                  pk == artifactProducerKeyEncode([artifactID |-> x])
              IN  /\ HasArtifact(x)
                  /\ ok \in DOMAIN db /\ actionOutputValueDecode(db[ok]).Name = n
                  /\ pk \in DOMAIN db /\ artifactProducerValueDecode(db[pk]).ActionID = a

\* C13: when an action() call fails at one of its entries, the step that
\* fails changes nothing in the store, and the action record and every edge
\* and artifact committed for the entries before it, and the records of
\* earlier statements, remain as committed.
C13_NoRollback ==
  /\ []C13_Committed
  /\ [][(decl.pc # "returned" /\ decl'.pc = "returned" /\ decl'.err # "none")
          => db' = db]_vars

\* A call of a later statement has failed after wiring an input.
C13_Witness ==
  /\ decl.pc = "returned" /\ decl.err # "none"
  /\ decl.base # <<>>
  /\ \E pr \in DOMAIN wired : Added("action") = {actionKeyEncode([id |-> pr[1]])}

\* The outputs entries of the call that have passed the kind check.
Passed == 1..(Len(decl.declared) - Len(decl.outputs))

\* C14: action() rejects every outputs value that is not the File token 0 or
\* the Directory token 1, whatever integer it is, and creates no artifact for
\* it: an entry gets past the kind check, and AddOutput is issued for it, only
\* with a value of 0 or 1 and with that value as the kind of the artifact.
C14_KindValidated ==
  /\ \A i \in Passed : decl.declared[i].value \in Kinds
  /\ decl.pc = "AddOutput" =>
       /\ Head(decl.outputs).value \in Kinds
       /\ tx[Writer].args.kind = Head(decl.outputs).value
  /\ \A i \in Passed :
       decl.declared[i].name \in DOMAIN decl.outs =>
         artifactTransaction(db, UuidParse(decl.outs[decl.declared[i].name])).val.value.Kind
           = decl.declared[i].value

\* The ids of the artifacts created so far, by Graph.AddArtifact or AddOutput.
CreatedArtifacts ==
  standalone \cup {Id(cursors.produced[i].handle) : i \in 1..Len(cursors.produced)}

C16_ListActions ==
  (res.op = "Actions" /\ res.err # StoreError) =>
    /\ res.err = "none"
    /\ res.val = cursors.created
    /\ \A i, j \in 1..Len(res.val) : i < j => Id(res.val[i]) < Id(res.val[j])
    /\ IdsOf(res.val) = {actionKeyDecode(k).id : k \in KeysOf("action")}
    /\ Len(res.val) = Cardinality(KeysOf("action"))

\* Graph.Actions has returned two actions from a store that also holds
\* artifacts and edges.
C16_Witness ==
  /\ res.op = "Actions" /\ res.err = "none"
  /\ Len(res.val) >= 2
  /\ KeysOf("artifact") # {} /\ KeysOf("input") # {}

\* The place of an action handle in the order of creation.
CreatedAt(c) == CHOOSE i \in 1..Len(cursors.created) : cursors.created[i] = c

\* C17: Consumers(x) returns the actions wired to x by AddInput, each once, in
\* the order in which the actions were created (ascending action id),
\* whatever the order of the AddInput calls.
C17_ConsumersOrder ==
  (res.op = "Consumers" /\ res.err = "none") =>
    LET x == Id(res.args.artifact) IN
    /\ IdsOf(res.val) = {pr[1] : pr \in {q \in DOMAIN wired : q[2] = x}}
    /\ \A i, j \in 1..Len(res.val) :
         i < j => /\ Id(res.val[i]) < Id(res.val[j])
                  /\ CreatedAt(res.val[i]) < CreatedAt(res.val[j])

\* Consumers() has returned two actions of which the first was wired after
\* the second.
C17_Witness ==
  /\ res.op = "Consumers" /\ res.err = "none"
  /\ Len(res.val) = 2
  /\ wired[<<Id(res.val[1]), Id(res.args.artifact)>>].at
       > wired[<<Id(res.val[2]), Id(res.args.artifact)>>].at

\* C18: Inputs(a) and Outputs(a) return only artifacts that have an edge
\* keyed by a in the input, respectively output, namespace, under the name of
\* that edge, and Consumers(x) returns only actions that have a consumer entry
\* keyed by x.
C18_ScansScoped ==
  /\ (res.op = "Inputs" /\ res.err = "none") =>
       \A n \in DOMAIN res.val :
         LET k == actionInputKeyEncode([actionID |-> Id(res.args.action),
                                        artifactID |-> Id(res.val[n])])
         IN  k \in DOMAIN db /\ actionInputValueDecode(db[k]).Name = n
  /\ (res.op = "Outputs" /\ res.err = "none") =>
       \A n \in DOMAIN res.val :
         LET k == actionOutputKeyEncode([actionID |-> Id(res.args.action),
                                         artifactID |-> Id(res.val[n])])
         IN  k \in DOMAIN db /\ actionOutputValueDecode(db[k]).Name = n
  /\ (res.op = "Consumers" /\ res.err = "none") =>
       \A i \in 1..Len(res.val) :
         artifactConsumerKeyEncode([artifactID |-> Id(res.args.artifact),
                                    actionID |-> Id(res.val[i])]) \in DOMAIN db

\* Inputs() has returned for an action while another action has an input
\* edge and the store holds output edges.
C18_Witness ==
  /\ res.op = "Inputs" /\ res.err = "none" /\ DOMAIN res.val # {}
  /\ \E k \in KeysOf("input") : actionInputKeyDecode(k).actionID # Id(res.args.action)
  /\ KeysOf("output") # {}

\* The pairs (a, x) whose input edge now carries the same name as the edge of
\* the pair q of the same action.
SameName(q) ==
  {r \in DOMAIN wired : r[1] = q[1] /\ r # q /\ wired[r].last = wired[q].last}

\* C19: when artifacts are wired to one action under the same input name by
\* several AddInput calls, Inputs(action) maps the name to the artifact of
\* the call that was made last.
C19_LastInputWins ==
  (res.op = "Inputs" /\ res.err = "none") =>
    \A q \in DOMAIN wired :
      (q[1] = Id(res.args.action) /\ \A r \in SameName(q) : wired[r].at < wired[q].at)
        => Id(res.val[wired[q].last]) = q[2]

\* Two AddOutput calls, the second after the first, on the same action with
\* the same name.
SameOutput(i, j) ==
  /\ i < j
  /\ cursors.produced[i].action = cursors.produced[j].action
  /\ cursors.produced[i].name = cursors.produced[j].name

\* The records of the AddOutput call number i are in the store.
OutputStored(i) ==
  LET o  == cursors.produced[i]
      x  == Id(o.handle)
      ek == actionOutputKeyEncode([actionID |-> o.action, artifactID |-> x])
      pk == artifactProducerKeyEncode([artifactID |-> x])
  IN  /\ HasArtifact(x)
      /\ ek \in DOMAIN db /\ actionOutputValueDecode(db[ek]).Name = o.name
      /\ pk \in DOMAIN db /\ artifactProducerValueDecode(db[pk]).ActionID = o.action

\* C20: after AddOutput was called twice on one action with the same name
\* there are two distinct artifacts, each with its output edge and its
\* producer entry, and Outputs(action) maps the name to the artifact of the
\* later call.
C20_LastOutputWins ==
  /\ \A i, j \in 1..Len(cursors.produced) :
       SameOutput(i, j) =>
         /\ Id(cursors.produced[i].handle) # Id(cursors.produced[j].handle)
         /\ OutputStored(i) /\ OutputStored(j)
  /\ (res.op = "Outputs" /\ res.err = "none") =>
       \A i \in 1..Len(cursors.produced) :
         (/\ cursors.produced[i].action = Id(res.args.action)
          /\ \A j \in 1..Len(cursors.produced) : ~SameOutput(i, j))
           => /\ cursors.produced[i].name \in DOMAIN res.val
              /\ res.val[cursors.produced[i].name] = cursors.produced[i].handle

\* Outputs() has returned for an action on which AddOutput was called twice
\* with the same name.
C20_Witness ==
  /\ res.op = "Outputs" /\ res.err = "none"
  /\ \E i, j \in 1..Len(cursors.produced) :
       SameOutput(i, j) /\ cursors.produced[i].action = Id(res.args.action)

\* Both callers have an AddOutput in flight, on two different actions.
OutputsInFlight(p, q) ==
  /\ p # q
  /\ tx[p].op = "AddOutput" /\ tx[q].op = "AddOutput"
  /\ Id(tx[p].args.action) # Id(tx[q].args.action)

\* C21: two AddOutput calls running concurrently on two different actions
\* write disjoint keys, so each can commit whatever the other does and the
\* two orders of commit give the same store; once committed there are two
\* distinct artifacts, each with its own output edge and producer entry.
C21_ConcurrentOutputs ==
  /\ \A p, q \in Callers :
       OutputsInFlight(p, q) =>
         /\ DOMAIN tx[p].wr \cap DOMAIN tx[q].wr = {}
         /\ Apply(Apply(db, tx[p].wr), tx[q].wr) = Apply(Apply(db, tx[q].wr), tx[p].wr)
         /\ ENABLED (Commit(p) /\ UNCHANGED decl)
         /\ ENABLED (Commit(q) /\ UNCHANGED decl)
  /\ \A i, j \in 1..Len(cursors.produced) :
       i # j =>
         /\ Id(cursors.produced[i].handle) # Id(cursors.produced[j].handle)
         /\ OutputStored(i) /\ OutputStored(j)

\* An AddOutput has committed on one action while an AddOutput that began
\* before it is still in flight on another action.
C21_Witness ==
  \E p \in Callers, i \in 1..Len(cursors.produced) :
    /\ tx[p].op = "AddOutput"
    /\ Id(tx[p].args.action) # cursors.produced[i].action
    /\ Id(tx[p].ret) < Id(cursors.produced[i].handle)

\* Both callers have an AddInput in flight for the same action and artifact,
\* with different names.
InputsInFlight(p, q) ==
  /\ p # q
  /\ tx[p].op = "AddInput" /\ tx[q].op = "AddInput"
  /\ Id(tx[p].args.action) = Id(tx[q].args.action)
  /\ Id(tx[p].args.artifact) = Id(tx[q].args.artifact)
  /\ tx[p].args.name # tx[q].args.name

\* The store s has exactly one input edge for the pair, with the given name,
\* and exactly one consumer entry for it.
OneEdge(s, a, x, name) ==
  LET edges == {k \in DOMAIN s : HasPrefix(k, actionInputRange(a) \o <<x>>)}
      marks == {k \in DOMAIN s : HasPrefix(k, artifactConsumerRange(x) \o <<a>>)}
  IN  /\ Cardinality(edges) = 1
      /\ \A k \in edges : actionInputValueDecode(s[k]).Name = name
      /\ Cardinality(marks) = 1

\* C22: two callers racing AddInput on the same (action, artifact) pair with
\* different names can both commit, neither waiting for the other, and either
\* order of commit leaves exactly one input edge, carrying the name of the
\* call that committed last, and exactly one consumer entry.
C22_RacingInputs ==
  /\ \A p, q \in Callers :
       InputsInFlight(p, q) =>
         LET a == Id(tx[p].args.action)
             x == Id(tx[p].args.artifact)
         IN  /\ ENABLED (Commit(p) /\ UNCHANGED decl)
             /\ ENABLED (Commit(q) /\ UNCHANGED decl)
             /\ OneEdge(Apply(Apply(db, tx[p].wr), tx[q].wr), a, x, tx[q].args.name)
             /\ OneEdge(Apply(Apply(db, tx[q].wr), tx[p].wr), a, x, tx[p].args.name)
  /\ \A pr \in DOMAIN wired : OneEdge(db, pr[1], pr[2], wired[pr].last)

\* One of two racing AddInput calls has committed while the other, made for
\* the same pair with another name, is still in flight.
C22_Witness ==
  \E p \in Callers, pr \in DOMAIN wired :
    /\ tx[p].op = "AddInput"
    /\ pr = <<Id(tx[p].args.action), Id(tx[p].args.artifact)>>
    /\ tx[p].args.name # wired[pr].last
    /\ wired[pr].at = 2 /\ nInputs = 2

\* C23: Schedule wipes the keyspace before the script is evaluated: when the
\* evaluation starts Graph.Actions is empty and Graph.Action and
\* Graph.GetArtifact fail with not-found for every id, and when the script
\* has completed successfully the store holds no record of an earlier build.
C23_WipedBeforeBuild ==
  /\ (decl.run /\ decl.pc = "idle") =>
       /\ actionsTransaction(db) = Ok(<<>>)
       /\ \A id \in 0..nextId :
            /\ actionTransaction(db, id) = Err(NotFound)
            /\ artifactTransaction(db, id) = Err(NotFound)
  /\ (decl.run /\ decl.pc = "returned" /\ decl.err = "none") =>
       \A k \in DOMAIN db : k \notin DOMAIN decl.old

\* action() has returned its struct for a declaration that repeats the one
\* evaluated just before it.
Repeated == decl.pc = "returned" /\ decl.err = "none" /\ decl.prev.again

\* C24: evaluating the same declaration a second time, with no wipe in
\* between, leaves two action records with distinct ids and, for every
\* declared output, two distinct artifacts; every record the store held when
\* the second evaluation began, those of the first included, is unchanged.
C24_RepeatedDeclaration ==
  Repeated =>
    /\ Id(decl.action) # Id(decl.prev.action)
    /\ HasAction(Id(decl.action))
    /\ actionKeyEncode([id |-> Id(decl.prev.action)]) \in DOMAIN decl.base
    /\ \A n \in DeclaredNames :
         /\ n \in DOMAIN decl.outs /\ n \in DOMAIN decl.prev.outs
         /\ decl.outs[n] # decl.prev.outs[n]
         /\ HasArtifact(UuidParse(decl.outs[n]))
         /\ artifactKeyEncode([id |-> UuidParse(decl.prev.outs[n])]) \in DOMAIN decl.base
    /\ \A k \in DOMAIN decl.base : k \in DOMAIN db /\ db[k] = decl.base[k]

\* A declaration with an output has been evaluated twice.
C24_Witness == Repeated /\ decl.declared # <<>>

\* A step that ends the call of p in flight without committing it and hands
\* the caller an error that is not the error of the store.
Cancelled(p) ==
  /\ Next
  /\ tx'[p].op = "none" /\ db' = db
  /\ res'.op = tx[p].op
  /\ res'.err \notin {"none", StoreError}

\* C25: every operation can be cancelled from outside: while the transaction
\* of a call is in flight, a step exists that aborts it without committing
\* and returns a cancellation error distinct from the store's errors.
C25_Cancellable ==
  \A p \in Callers : tx[p].op # "none" => ENABLED Cancelled(p)

AddedEdges == Added("input") \cup Added("output") \cup Added("producer") \cup Added("consumer")

\* C27: within one action() declaration the AddAction transaction commits
\* first; then, entry by entry, the artifact of an input is read and its
\* AddInput is issued; then, entry by entry, one AddOutput commits per output.
\* No output is committed or issued before the inputs loop is over and no
\* edge is committed before the action record.
C27_ConstructionOrder ==
  decl.pc # "idle" =>
    /\ decl.pc = "AddAction" => {k \in DOMAIN db : k \notin DOMAIN decl.base} = {}
    /\ AddedEdges # {} => actionKeyEncode([id |-> Id(decl.action)]) \in Added("action")
    /\ decl.pc = "AddInput" =>
         /\ tx[Writer].op = "AddInput" /\ decl.inputs # <<>>
         /\ tx[Writer].args.name = Head(decl.inputs).name
         /\ Id(tx[Writer].args.artifact) = UuidParse(Head(decl.inputs).value)
    /\ decl.pc \in {"AddAction", "inputs", "AddInput"} =>
         Added("output") = {} /\ decl.outputs = decl.declared
    /\ (decl.pc \in {"outputs", "AddOutput"} \/ Added("output") # {}) => decl.inputs = <<>>
    /\ decl.pc = "AddOutput" =>
         /\ tx[Writer].op = "AddOutput"
         /\ tx[Writer].args.name = Head(decl.outputs).name
    /\ Cardinality(Added("output")) = Len(decl.declared) - Len(decl.outputs)

\* A declaration with an input and an output has returned with both wired.
C27_Witness ==
  /\ decl.pc = "returned" /\ decl.err = "none"
  /\ Added("input") # {} /\ Added("output") # {}

\* The calls that read edges or scan a namespace.
Accessors == {"Inputs", "Outputs", "Producer", "Consumers", "Actions"}

Retried == "abandoned" \in DOMAIN res

\* C29: when the store runs the body of a scanning read transaction again,
\* the result holds each matching entry of the store once, and nothing of what
\* the abandoned execution had gathered.
C29_RetriedScan ==
  (Retried /\ res.err = "none") =>
    CASE res.op = "Actions" ->
           /\ Len(res.val) = Cardinality(KeysOf("action"))
           /\ IdsOf(res.val) = {actionKeyDecode(k).id : k \in KeysOf("action")}
      [] res.op = "Consumers" ->
           LET ks == {k \in KeysOf("consumer") :
                        artifactConsumerKeyDecode(k).artifactID = Id(res.args.artifact)}
           IN  /\ Len(res.val) = Cardinality(ks)
               /\ IdsOf(res.val) = {artifactConsumerKeyDecode(k).actionID : k \in ks}
      [] res.op = "Inputs" ->
           LET ks == {k \in KeysOf("input") :
                        actionInputKeyDecode(k).actionID = Id(res.args.action)}
           IN  /\ DOMAIN res.val = {actionInputValueDecode(db[k]).Name : k \in ks}
               /\ \A n \in DOMAIN res.val : \E k \in ks :
                    /\ actionInputValueDecode(db[k]).Name = n
                    /\ actionInputKeyDecode(k).artifactID = Id(res.val[n])
      [] res.op = "Outputs" ->
           LET ks == {k \in KeysOf("output") :
                        actionOutputKeyDecode(k).actionID = Id(res.args.action)}
           IN  /\ DOMAIN res.val = {actionOutputValueDecode(db[k]).Name : k \in ks}
               /\ \A n \in DOMAIN res.val : \E k \in ks :
                    /\ actionOutputValueDecode(db[k]).Name = n
                    /\ actionOutputKeyDecode(k).artifactID = Id(res.val[n])

\* ListActions has returned from a second execution that found more actions
\* than the abandoned one had gathered.
C29_Witness ==
  /\ Retried /\ res.op = "Actions" /\ res.err = "none"
  /\ res.abandoned # <<>> /\ Len(res.val) > Len(res.abandoned)

\* C30: an accessor reads the store as it is when it is called, not as it was
\* when the handle was obtained: Inputs() and Outputs() return the edges
\* committed up to the call, each name with an artifact wired under it; and
\* GetAction, GetArtifact and ListActions return what they would return on a
\* store without any input, output, producer or consumer key.
C30_ReadAtCall ==
  /\ (res.op = "Inputs" /\ res.err = "none") =>
       LET ks == {k \in KeysOf("input") :
                    actionInputKeyDecode(k).actionID = Id(res.args.action)}
       IN  /\ DOMAIN res.val = {actionInputValueDecode(db[k]).Name : k \in ks}
           /\ \A n \in DOMAIN res.val : \E k \in ks :
                /\ actionInputValueDecode(db[k]).Name = n
                /\ actionInputKeyDecode(k).artifactID = Id(res.val[n])
  /\ (res.op = "Outputs" /\ res.err = "none") =>
       LET ks == {k \in KeysOf("output") :
                    actionOutputKeyDecode(k).actionID = Id(res.args.action)}
       IN  /\ DOMAIN res.val = {actionOutputValueDecode(db[k]).Name : k \in ks}
           /\ \A n \in DOMAIN res.val : \E k \in ks :
                /\ actionOutputValueDecode(db[k]).Name = n
                /\ actionOutputKeyDecode(k).artifactID = Id(res.val[n])
  /\ (res.op = "Action" /\ res.err # StoreError) =>
       LET r == actionTransaction(EntityOnly(db), res.args.id)
       IN  res.err = r.err /\ res.val = r.val
  /\ (res.op = "GetArtifact" /\ res.err # StoreError) =>
       LET r == artifactTransaction(EntityOnly(db), res.args.id)
       IN  res.err = r.err /\ res.val = r.val
  /\ (res.op = "Actions" /\ res.err # StoreError) =>
       LET r == actionsTransaction(EntityOnly(db))
       IN  res.err = r.err /\ res.val = r.val

\* Inputs() on the handle AddAction returned shows an edge that was wired
\* after that handle was returned.
C30_Witness ==
  /\ res.op = "Inputs" /\ res.err = "none" /\ res.val # <<>>
  /\ \E i \in 1..Len(cursors.created) : cursors.created[i] = res.args.action

\* The records that are written once: actions, artifacts and producer entries.
Entity(k) == k[1] \in {"action", "artifact", "producer"}

\* C31: without a wipe, an action record, an artifact record or a producer
\* entry that exists is never deleted or changed by any operation, so GetAction
\* and GetArtifact return the label and command or kind of the handles handed
\* out before, and Producer returns the action it returned before.
C31_Immutable ==
  [][/\ \A k \in DOMAIN db : Entity(k) => (k \in DOMAIN db' /\ db'[k] = db[k])
     /\ (res'.op = "Action" /\ res'.err = "none") =>
          \A c \in cursors.actions : Id(c) = res'.args.id => res'.val = c
     /\ (res'.op = "GetArtifact" /\ res'.err = "none") =>
          \A c \in cursors.artifacts : Id(c) = res'.args.id => res'.val = c
     /\ (res'.op = "Producer" /\ res'.err = "none") =>
          /\ Id(res'.args.artifact) \in DOMAIN outputOf
          /\ res'.val = outputOf[Id(res'.args.artifact)]]_vars

\* Producer has returned for an artifact that has since been wired as an
\* input of another action.
C31_Witness ==
  /\ res.op = "Producer" /\ res.err = "none"
  /\ \E k \in KeysOf("consumer") :
       /\ artifactConsumerKeyDecode(k).artifactID = Id(res.args.artifact)
       /\ artifactConsumerKeyDecode(k).actionID # Id(res.val)

\* The entries an accessor call scans whose action or artifact record is
\* absent from the store.
Dangling(op, args) ==
  CASE op = "Inputs" ->
         {k \in KeysOf("input") :
            /\ actionInputKeyDecode(k).actionID = Id(args.action)
            /\ ~HasArtifact(actionInputKeyDecode(k).artifactID)}
    [] op = "Outputs" ->
         {k \in KeysOf("output") :
            /\ actionOutputKeyDecode(k).actionID = Id(args.action)
            /\ ~HasArtifact(actionOutputKeyDecode(k).artifactID)}
    [] op = "Producer" ->
         {k \in KeysOf("producer") :
            /\ artifactProducerKeyDecode(k).artifactID = Id(args.artifact)
            /\ ~HasAction(artifactProducerValueDecode(db[k]).ActionID)}
    [] op = "Consumers" ->
         {k \in KeysOf("consumer") :
            /\ artifactConsumerKeyDecode(k).artifactID = Id(args.artifact)
            /\ ~HasAction(artifactConsumerKeyDecode(k).actionID)}

\* C32: when an entry scanned by Inputs, Outputs, Producer or Consumers refers
\* to an action or artifact whose record is absent, the call returns an error:
\* it never succeeds with the entry left out.
C32_DanglingIsError ==
  (/\ res.op \in {"Inputs", "Outputs", "Producer", "Consumers"}
   /\ res.err # StoreError
   /\ Dangling(res.op, res.args) # {}) => res.err = NotFound

\* Inputs() has scanned an edge whose artifact was cleared from the store,
\* next to an edge whose artifact exists.
C32_Witness ==
  /\ res.op = "Inputs" /\ res.err = NotFound
  /\ Dangling("Inputs", res.args) # {}
  /\ \E k \in KeysOf("input") :
       /\ actionInputKeyDecode(k).actionID = Id(res.args.action)
       /\ HasArtifact(actionInputKeyDecode(k).artifactID)

\* C36: a wipe that falls between obtaining a handle and an AddInput or
\* AddOutput made through it leaves referential integrity intact: no input
\* edge, output edge, producer entry or consumer entry refers to an action or
\* artifact record that is absent from the store.
C36_IntegrityAcrossWipe ==
  /\ \A k \in KeysOf("input") :
       /\ HasAction(actionInputKeyDecode(k).actionID)
       /\ HasArtifact(actionInputKeyDecode(k).artifactID)
  /\ \A k \in KeysOf("output") :
       /\ HasAction(actionOutputKeyDecode(k).actionID)
       /\ HasArtifact(actionOutputKeyDecode(k).artifactID)
  /\ \A k \in KeysOf("producer") :
       /\ HasArtifact(artifactProducerKeyDecode(k).artifactID)
       /\ HasAction(artifactProducerValueDecode(db[k]).ActionID)
  /\ \A k \in KeysOf("consumer") :
       /\ HasArtifact(artifactConsumerKeyDecode(k).artifactID)
       /\ HasAction(artifactConsumerKeyDecode(k).actionID)

\* C33: file() and dir() called with no argument return the File and the
\* Directory token, two distinct values; called with a positional or a keyword
\* argument they fail; in both cases the store is neither read nor written and
\* no transaction is issued.
C33_KindBuiltins ==
  [][res'.op \in {"file", "dir"} =>
       LET bare == res'.args.args = <<>> /\ res'.args.kwargs = <<>>
           token == IF res'.op = "file" THEN ArtifactKindFile ELSE ArtifactKindDirectory
       IN  /\ bare => (res'.err = "none" /\ res'.val = starlarkInt(token))
           /\ ~bare => res'.err # "none"
           /\ ArtifactKindFile # ArtifactKindDirectory
           /\ UNCHANGED <<db, tx, nextId, cursors>>]_vars

\* dir() has returned its token in a script that has already built records.
C33_Witness ==
  /\ res.op = "dir" /\ res.err = "none" /\ res.val = starlarkInt(ArtifactKindDirectory)
  /\ db # <<>>

\* The calls the top-level validation of action() refuses: a positional
\* argument, name or cmd missing or not a string, inputs or outputs given and
\* not a mapping.
Invalid(call) ==
  \/ Len(call.args) > 0
  \/ call.kwargs.name.type # "string"
  \/ call.kwargs.cmd.type # "string"
  \/ call.kwargs.inputs.type \notin {"absent", "dict"}
  \/ call.kwargs.outputs.type \notin {"absent", "dict"}

Rejected(call) ==
  /\ ScriptCall(call.args, call.kwargs)
  /\ decl'.pc = "returned" /\ decl'.err # "none"
  /\ UNCHANGED <<db, tx, nextId>>

Issued(call) ==
  /\ ScriptCall(call.args, call.kwargs)
  /\ (db' # db \/ tx' # tx \/ nextId' # nextId)

\* C39: an action() call that fails the top-level validation of its arguments
\* returns an error before any store transaction is issued and leaves the
\* store unchanged.
C39_RejectedBeforeStore ==
  (ScriptRuns /\ tx[Writer].op = "none") =>
    \A call \in BadCalls :
      Invalid(call) => (ENABLED Rejected(call) /\ ~ENABLED Issued(call))

\* A later statement of the script has been refused for its arguments, after
\* an earlier one had built records.
C39_Witness ==
  /\ decl.pc = "returned" /\ decl.err # "none"
  /\ decl.call.rejected /\ Invalid(decl.call)
  /\ db # <<>> /\ db = decl.base

\* The actions that consume an artifact produced by action a.
Consuming(a) ==
  {artifactConsumerKeyDecode(c).actionID :
     c \in {k \in KeysOf("consumer") :
              \E o \in KeysOf("output") :
                /\ actionOutputKeyDecode(o).actionID = a
                /\ actionOutputKeyDecode(o).artifactID = artifactConsumerKeyDecode(k).artifactID}}

\* The actions reached from the set S in at most n steps of Consuming.
RECURSIVE Downstream(_, _)
Downstream(S, n) ==
  IF n = 0 THEN S
  ELSE Downstream(S \cup UNION {Consuming(a) : a \in S}, n - 1)

ActionIds == {actionKeyDecode(k).id : k \in KeysOf("action")}

\* C34: in a graph built by action() declarations evaluated one after the
\* other, every artifact an action consumes was created before the action,
\* every artifact it produces is created after it and after its input edges,
\* and no action is reached from itself by output-then-consumer steps.
C34_Acyclic ==
  /\ \A k \in KeysOf("input") :
       actionInputKeyDecode(k).artifactID < actionInputKeyDecode(k).actionID
  /\ \A k \in KeysOf("output") :
       actionOutputKeyDecode(k).actionID < actionOutputKeyDecode(k).artifactID
  /\ \A k \in Added("input") :
       artifactKeyEncode([id |-> actionInputKeyDecode(k).artifactID]) \in DOMAIN decl.base
  /\ Added("output") # {} => decl.inputs = <<>>
  /\ \A a \in ActionIds :
       a \notin Downstream(Consuming(a), Cardinality(ActionIds))

\* An action consumes an artifact that another action has produced.
C34_Witness ==
  \E a \in ActionIds : \E b \in Consuming(a) : b # a /\ b \in ActionIds

\* C35: a successful AddAction, AddArtifact or AddOutput commits exactly one
\* new entity record, however often the store has run its body, and the handle
\* it returns carries the id of that record: the lookup by that id returns the
\* same handle, with the same label and command or kind.
C35_OneRecordPerCall ==
  [][(res'.op \in {"AddAction", "AddArtifact", "AddOutput"} /\ res'.err = "none") =>
       LET records == {k \in (DOMAIN db') \ (DOMAIN db) : k[1] \in {"action", "artifact"}}
           actions == cursors'.actions \ cursors.actions
           artifacts == cursors'.artifacts \ cursors.artifacts
       IN  /\ Cardinality(records) = 1
           /\ IF res'.op = "AddAction"
              THEN /\ artifacts = {} /\ Cardinality(actions) = 1
                   /\ \A h \in actions :
                        /\ records = {actionKeyEncode([id |-> Id(h)])}
                        /\ actionTransaction(db', Id(h)) = Ok(h)
                        /\ h.value = [Label |-> tx[Writer].args.label,
                                      Command |-> tx[Writer].args.command]
              ELSE /\ actions = {} /\ Cardinality(artifacts) = 1
                   /\ \A h \in artifacts :
                        /\ records = {artifactKeyEncode([id |-> Id(h)])}
                        /\ artifactTransaction(db', Id(h)) = Ok(h)
                        /\ h.value = [Label |-> tx[Writer].args.label,
                                      Kind |-> tx[Writer].args.kind]]_vars

\* AddOutput has returned after the store ran its body more than once: the
\* ids drawn outnumber the records.
C35_Witness ==
  /\ res.op = "AddOutput" /\ res.err = "none"
  /\ nextId > Cardinality(KeysOf("action") \cup KeysOf("artifact"))

\* C37: with several callers creating actions at the same time, the list an
\* earlier ListActions call returned is a prefix of the list any later call
\* returns.
C37_ListGrowsAtEnd ==
  (res.op = "Actions" /\ res.err = "none") =>
    /\ Len(res.args.earlier) <= Len(res.val)
    /\ \A i \in 1..Len(res.args.earlier) : res.val[i] = res.args.earlier[i]

\* The keys a step sets, changes or clears.
Changed == {k \in (DOMAIN db) \cup (DOMAIN db') :
              k \notin DOMAIN db \/ k \notin DOMAIN db' \/ db'[k] # db[k]}

\* C38: each operation writes only its own namespaces: AddAction the action
\* namespace, AddArtifact the artifact namespace, AddInput the input and
\* consumer namespaces, AddOutput the artifact, output and producer namespaces
\* and never a key that exists; the read operations change nothing, whether
\* they succeed or fail.
C38_OwnNamespaces ==
  [][/\ (res'.op = "AddAction" /\ res'.err = "none") =>
          \A k \in Changed : k[1] = "action"
     /\ (res'.op = "AddArtifact" /\ res'.err = "none") =>
          \A k \in Changed : k[1] = "artifact"
     /\ (res'.op = "AddInput" /\ res'.err = "none") =>
          \A k \in Changed : k[1] \in {"input", "consumer"}
     /\ (res'.op = "AddOutput" /\ res'.err = "none") =>
          \A k \in Changed : k[1] \in {"artifact", "output", "producer"} /\ k \notin DOMAIN db
     /\ res'.op \in {"Action", "GetArtifact", "Actions", "Inputs", "Outputs",
                     "Producer", "Consumers"} => Changed = {}]_vars

\* AddOutput has committed on a store that holds records of every namespace.
C38_Witness ==
  /\ res.op = "AddOutput" /\ res.err = "none"
  /\ KeysOf("input") # {} /\ KeysOf("consumer") # {}
  /\ Cardinality(KeysOf("output")) > 1

====
